---- MODULE Spec2Model ----
(***************************************************************************)
(* HealthBot: the conversation state machine of src/src/fncs/nodes.py (the *)
(* stage handlers, the router and the graph workflow wrk_flow) and of      *)
(* src/src/fncs/gradio_ui.py (the chat driver healthbot_chat).             *)
(* src/src/healthbot.py holds the same functions, body for body.           *)
(*                                                                         *)
(* A HealthBotState is a Python dict: here a function whose DOMAIN is the  *)
(* set of keys that are present.  A value is an option: None is <<>>, a    *)
(* value v is <<v>>.  A text (a completion, a message content) is a        *)
(* sequence of string pieces, so that f-strings and + are concatenations   *)
(* and find/rfind/slicing/json.loads work on the pieces.                   *)
(***************************************************************************)
EXTENDS Integers, Sequences, FiniteSets, TLC

VARIABLES
    mode,     \* which program runs: "graph" (wrk_flow), "chat" (healthbot_chat behind
              \* its UI), "chat_any" (healthbot_chat with any question count),
              \* "chat_ok" (healthbot_chat while no call of a port raises),
              \* "sessions" (healthbot_chat called by two UI sessions), or a handler
              \* on its own ("router", "prompt", "search")
    pc,       \* graph: the node to run next; chat: "turn"
    state,    \* the HealthBotState (graph state / healthbot_chat.state)
    ran,      \* history: the handlers run by the last step, in order
    inp,      \* history: the user inputs read by the last step, in order (chat: the
              \* message, then the settings the turn read)
    out,      \* history: the content returned to the chat UI by the last turn
    visited,  \* history: the handlers run since the topic-cycle began
    scen,     \* history: how many inputs of the end-to-end scenario were read, -1 off script
    session   \* history, mode "sessions": the UI session that made the last call, the
              \* number of calls made, and the state each session's last call left

vars == <<mode, pc, state, ran, inp, out, visited, scen, session>>

----------------------------------------------------------------------------
(* Bounds of the model *)

\* graph workflow: the session is followed until the user has typed this many inputs
MaxInputs == 7
\* chat driver: the question counts the UI's slider sends are 1..MaxCount
MaxCount == 2
\* router on its own: question indexes 0..MaxIndex and question counts 1..MaxIndex
MaxIndex == 3
\* two UI sessions: the calls of healthbot_chat are followed up to this many
MaxTurns == 4
\* present_feedback: its self-calls are counted down to this depth
MaxDepth == 3

----------------------------------------------------------------------------
(* Python values *)

None == <<>>
Some(v) == <<v>>

\* state.get(k)
Get(s, k) == IF k \in DOMAIN s THEN s[k] ELSE None
\* state.get(k, d)
GetD(s, k, d) == IF k \in DOMAIN s THEN s[k] ELSE Some(d)
\* state[k] = v
Put(s, k, v) == [x \in (DOMAIN s) \cup {k} |-> IF x = k THEN v ELSE s[x]]
\* "k not in state or state[k] is None"
Unset(s, k) == Get(s, k) = None
\* bool(x) of an optional bool
TruthyBool(o) == o = Some(TRUE)
\* bool(x) of an optional list or string
TruthySeq(o) == o # None /\ o[1] # <<>>

\* state["messages"].append({"role": r, "content": c})
Append1(s, r, c) ==
    Put(s, "messages", Some(Append(s["messages"][1], [role |-> r, content |-> c])))

----------------------------------------------------------------------------
(* Fixed texts of the program *)

SYSTEM_MSG == <<"You are HealthBot, an AI assistant that helps patients learn about health topics.">>
TOPIC_PROMPT == <<"What health topic or medical condition would you like to learn about today?">>
DETAIL_PROMPT == <<"What level of detail would you like? (easy, medium, hard)">>
QUIZ_PROMPT == <<"Would you like to take a quick quiz to test your understanding? (yes/no)">>
COUNT_PROMPT == <<"How many questions would you like? (1-5)">>
NEXT_Q_PROMPT == <<"Ready for the next question? (yes/no)">>
FAREWELL == <<"Thank you for using HealthBot! Take care and stay healthy!">>
NEXT_PROMPT_TOPICS == <<"Would you like to: 1. Learn about one of these related topics (enter the number) 2. Learn about a new health topic (enter 'new') 3. Exit (enter 'exit')">>
NEXT_PROMPT_PLAIN == <<"Would you like to learn about a new health topic (enter 'new') or exit (enter 'exit')?">>
DEFAULT_REPLY == <<"I'm not sure how to respond to that. Would you like to learn about a health topic?">>
PLACEHOLDER_TOPICS == <<"Related topic 1", "Related topic 2", "Related topic 3">>

AFFIRMATIVE == {"yes", "y", "sure", "ok", "okay"}
EXIT_WORDS == {"exit", "quit", "bye", "goodbye"}
NEW_WORDS == {"new", "new topic"}
RESTART_WORDS == {"restart", "new", "new topic"}

----------------------------------------------------------------------------
(* str.lower, str.isdigit, int(), str(int) on the strings of the model *)

\* a str.lower that leaves capitals alone
LowerKeepsCase(s) == s

Lower(s) ==
    CASE s = "YES" -> "yes"
      [] s = "Exit" -> "exit"
      [] s = "EXIT" -> "exit"
      [] s = "Restart" -> "restart"
      [] s = "New Topic" -> "new topic"
      [] s = "Okay" -> "okay"
      [] OTHER -> s

\* str.isdigit() is also true of a superscript digit, which int() rejects
DigitStrings == {"0", "1", "2", "3", "4", "5", "7", "²"}
IsDigit(s) == s \in DigitStrings

\* int(s): Some(n), or None for ValueError
ParseInt(s) ==
    CASE s = "0" -> Some(0)
      [] s = "1" -> Some(1)
      [] s = "2" -> Some(2)
      [] s = "3" -> Some(3)
      [] s = "4" -> Some(4)
      [] s = "5" -> Some(5)
      [] s = "7" -> Some(7)
      [] s = "-2" -> Some(0 - 2)
      [] OTHER -> None

\* str(n), as the f-strings format a small number
Str(n) ==
    CASE n = 0 -> "0"
      [] n = 1 -> "1"
      [] n = 2 -> "2"
      [] n = 3 -> "3"
      [] n = 4 -> "4"
      [] n = 5 -> "5"
      [] n = 6 -> "6"
      [] n = 7 -> "7"
      [] n = 8 -> "8"
      [] OTHER -> "n"

\* a min that returns the larger number
MinIsMax(a, b) == IF a > b THEN a ELSE b

Min(a, b) == IF a < b THEN a ELSE b
Max(a, b) == IF a > b THEN a ELSE b

----------------------------------------------------------------------------
(* The capability ports.  A completion is a text; the search port returns  *)
(* a list of snippets.  Either call can raise.                             *)

\* the port raised instead of returning
Failure == <<"<raised>">>

\* texts the completion service returns to summarize_health_info
SummaryTexts == {<<"S1">>}
\* texts the completion service returns to create_quiz_questions
QuizTexts ==
    { <<"[", "q1", "]">>,
      <<"Here:", "[", "q1", ",", "q2", "]", "Good luck">>,
      <<"[", "]">>,
      <<"q1?">>,
      <<"[", "q1", "q2", "]">> }
\* texts the completion service returns to grade_quiz_answer
GradeTexts == {<<"- Grade: Pass">>}
\* texts the completion service returns to suggest_related_topics
TopicTexts ==
    { <<"[", "t1", ",", "t2", ",", "t3", "]">>,
      <<"[", "]">>,
      <<"no list">> }

\* the pieces of a completion that are JSON string literals
JsonStrings == {"q1", "q2", "q3", "t1", "t2", "t3"}

\* what search_tool.invoke(query) returns: snippets of the query, in rank order
SearchHits(query) == {<<>>, <<[query |-> query, rank |-> 1]>>}
\* the replies of the search port: a list of snippets, or the call raised
SearchReplies(query) ==
    {[raised |-> FALSE, results |-> r] : r \in SearchHits(query)}
        \cup {[raised |-> TRUE, results |-> <<>>]}

\* longer results of the port: two snippets, in either order of rank
RankedReplies(query) ==
    SearchReplies(query)
        \cup {[raised |-> FALSE, results |-> r] :
                 r \in { <<[query |-> query, rank |-> 1], [query |-> query, rank |-> 2]>>,
                         <<[query |-> query, rank |-> 2], [query |-> query, rank |-> 1]>> }}

\* a handler returned st / a handler raised after changing the state to st
Ret(s) == [st |-> s, err |-> FALSE]
Raise(s) == [st |-> s, err |-> TRUE]

----------------------------------------------------------------------------
(* str.find, str.rfind, slicing and json.loads on a text (0-based as in    *)
(* Python)                                                                  *)

Find(t, c) ==
    IF \E i \in 1..Len(t) : t[i] = c
    THEN (CHOOSE i \in 1..Len(t) : t[i] = c /\ \A j \in 1..(i - 1) : t[j] # c) - 1
    ELSE 0 - 1

RFind(t, c) ==
    IF \E i \in 1..Len(t) : t[i] = c
    THEN (CHOOSE i \in 1..Len(t) : t[i] = c /\ \A j \in (i + 1)..Len(t) : t[j] # c) - 1
    ELSE 0 - 1

\* t[a:b]
Slice(t, a, b) == SubSeq(t, a + 1, b)

\* json.loads of a text that starts with "[" and ends with "]": Some(list of
\* the string literals), or None when it is no JSON array
JsonLoads(t) ==
    LET inner == SubSeq(t, 2, Len(t) - 1)
        n == Len(inner)
        wellFormed ==
            /\ Len(t) >= 2 /\ t[1] = "[" /\ t[Len(t)] = "]"
            /\ \/ n = 0
               \/ /\ n % 2 = 1
                  /\ \A i \in 1..n : IF i % 2 = 1 THEN inner[i] \in JsonStrings
                                                  ELSE inner[i] = ","
    IN IF wellFormed
       THEN Some([i \in 1..((n + 1) \div 2) |-> <<inner[2 * i - 1]>>])
       ELSE None

\* a parse that gives an empty list, not the fallback, when there is no array
ParseArrayNoFallback(text, fallback) ==
    LET start_idx == Find(text, "[")
        end_idx == RFind(text, "]") + 1
    IN IF start_idx >= 0 /\ end_idx > start_idx
       THEN LET loaded == JsonLoads(Slice(text, start_idx, end_idx))
            IN IF loaded = None THEN fallback ELSE loaded[1]
       ELSE <<>>

\* the try/except of create_quiz_questions and of suggest_related_topics:
\* the parsed array, or the fallback
ParseArray(text, fallback) ==
    LET start_idx == Find(text, "[")
        end_idx == RFind(text, "]") + 1
    IN IF start_idx >= 0 /\ end_idx > start_idx
       THEN LET loaded == JsonLoads(Slice(text, start_idx, end_idx))
            IN IF loaded = None THEN fallback ELSE loaded[1]
       ELSE fallback

----------------------------------------------------------------------------
(* The stage handlers (nodes)                                              *)

\* HealthBotState(messages=...)
OnlyMessages(msgs) == [messages |-> msgs]

\* an ask_health_topic that opens every topic with the system message
ask_health_topicAlwaysSystem(s, health_topic, difficulty) ==
    IF Get(s, "health_topic") = None \/ Get(s, "next_action") = Some("new_topic")
    THEN LET s1 == IF Get(s, "next_action") = Some("new_topic")
                   THEN OnlyMessages(GetD(s, "messages", <<>>))
                   ELSE s
             s2 == Append1(s1, "system", SYSTEM_MSG)
             s3 == Append1(s2, "assistant", TOPIC_PROMPT)
             s4 == Append1(s3, "user", <<health_topic>>)
             s5 == Put(s4, "health_topic", Some(<<health_topic>>))
             s6 == Append1(s5, "assistant", DETAIL_PROMPT)
             s7 == Append1(s6, "user", <<difficulty>>)
             s8 == Put(s7, "difficulty", Some(difficulty))
         IN Ret(Put(s8, "level_of_details", Some(difficulty)))
    ELSE Ret(s)

\* an ask_health_topic that keeps the fields of the topic before
ask_health_topicKeepsState(s, health_topic, difficulty) ==
    IF Get(s, "health_topic") = None \/ Get(s, "next_action") = Some("new_topic")
    THEN LET s2 == IF ~TruthySeq(Get(s, "messages"))
                   THEN Put(s, "messages",
                            Some(<<[role |-> "system", content |-> SYSTEM_MSG]>>))
                   ELSE s
             s3 == Append1(s2, "assistant", TOPIC_PROMPT)
             s4 == Append1(s3, "user", <<health_topic>>)
             s5 == Put(s4, "health_topic", Some(<<health_topic>>))
             s6 == Append1(s5, "assistant", DETAIL_PROMPT)
             s7 == Append1(s6, "user", <<difficulty>>)
             s8 == Put(s7, "difficulty", Some(difficulty))
         IN Ret(Put(s8, "level_of_details", Some(difficulty)))
    ELSE Ret(s)

ask_health_topic(s, health_topic, difficulty) ==
    IF Get(s, "health_topic") = None \/ Get(s, "next_action") = Some("new_topic")
    THEN LET s1 == IF Get(s, "next_action") = Some("new_topic")
                   THEN OnlyMessages(GetD(s, "messages", <<>>))
                   ELSE s
             s2 == IF ~TruthySeq(Get(s1, "messages"))
                   THEN Put(s1, "messages",
                            Some(<<[role |-> "system", content |-> SYSTEM_MSG]>>))
                   ELSE s1
             s3 == Append1(s2, "assistant", TOPIC_PROMPT)
             s4 == Append1(s3, "user", <<health_topic>>)
             s5 == Put(s4, "health_topic", Some(<<health_topic>>))
             s6 == Append1(s5, "assistant", DETAIL_PROMPT)
             s7 == Append1(s6, "user", <<difficulty>>)
             s8 == Put(s7, "difficulty", Some(difficulty))
         IN Ret(Put(s8, "level_of_details", Some(difficulty)))
    ELSE Ret(s)

\* a query that uses the template of the easy level for the hard one too
SearchQuerySwapped(s) ==
    LET health_topic == s["health_topic"]
        level_of_details ==
            IF "level_of_details" \in DOMAIN s THEN s["level_of_details"]
            ELSE GetD(s, "difficulty", "medium")
    IN IF level_of_details \in {Some("easy"), Some("hard")}
       THEN health_topic[1] \o <<" simple explanation for patients">>
       ELSE health_topic[1] \o <<" patient information">>

\* the query search_health_info builds
SearchQuery(s) ==
    LET health_topic == s["health_topic"]
        level_of_details ==
            IF "level_of_details" \in DOMAIN s THEN s["level_of_details"]
            ELSE GetD(s, "difficulty", "medium")
    IN IF level_of_details = Some("easy")
       THEN health_topic[1] \o <<" simple explanation for patients">>
       ELSE IF level_of_details = Some("hard")
       THEN health_topic[1] \o <<" detailed medical information">>
       ELSE health_topic[1] \o <<" patient information">>

\* reply: what search_tool.invoke(query) did
search_health_info(s, reply) ==
    IF reply.raised THEN Raise(s)
    ELSE Ret(Put(s, "search_results", Some(reply.results)))

\* response: the completion, or Failure
summarize_health_info(s, response) ==
    IF response = Failure THEN Raise(s)
    ELSE Ret(Append1(Put(s, "summary", Some(response)), "assistant", response))

present_summary(s) == Ret(s)

\* num_questions is read only after an affirmative response
prompt_for_quiz(s, response, num_questions) ==
    LET s1 == Append1(s, "assistant", QUIZ_PROMPT)
        s2 == Append1(s1, "user", <<response>>)
        ready == Lower(response) \in AFFIRMATIVE
        s3 == Put(s2, "quiz_ready", Some(ready))
    IN IF ready
       THEN LET s4 == Append1(s3, "assistant", COUNT_PROMPT)
                s5 == Append1(s4, "user", <<num_questions>>)
                n == ParseInt(num_questions)
                s6 == Put(s5, "num_questions",
                          IF n = None THEN Some(1) ELSE Some(Min(5, Max(1, n[1]))))
            IN Ret(Put(s6, "current_question_index", Some(0)))
       ELSE Ret(s3)

\* a create_quiz_questions without the quiz_ready guard
create_quiz_questionsUnguarded(s, response) ==
    IF response = Failure THEN Raise(s)
    ELSE LET questions == ParseArray(response, <<response>>)
             s1 == Put(s, "quiz_questions", Some(questions))
         IN IF questions = <<>> THEN Raise(s1)
            ELSE Ret(Put(s1, "current_quiz_question", Some(questions[1])))

create_quiz_questions(s, response) ==
    IF ~TruthyBool(s["quiz_ready"]) THEN Ret(s)
    ELSE IF response = Failure THEN Raise(s)
    ELSE LET questions == ParseArray(response, <<response>>)
             s1 == Put(s, "quiz_questions", Some(questions))
         IN IF questions = <<>> THEN Raise(s1)    \* questions[0]: IndexError
            ELSE Ret(Put(s1, "current_quiz_question", Some(questions[1])))

present_quiz_question(s) ==
    IF ~TruthyBool(s["quiz_ready"]) THEN Ret(s)
    ELSE LET current_index == GetD(s, "current_question_index", 0)
             questions == s["quiz_questions"]
         IN IF questions = None \/ current_index = None THEN Raise(s)  \* TypeError
            ELSE IF current_index[1] < Len(questions[1])
            THEN LET current_question == questions[1][current_index[1] + 1]
                     s1 == Append1(s, "assistant",
                                   <<"Question ", Str(current_index[1] + 1), ": ">>
                                       \o current_question)
                 IN Ret(Put(s1, "current_quiz_question", Some(current_question)))
            ELSE Ret(s)

\* a collect_quiz_answer without the quiz_ready guard
collect_quiz_answerUnguarded(s, answer) ==
    Ret(Put(Append1(s, "user", <<answer>>), "quiz_answer", Some(<<answer>>)))

collect_quiz_answer(s, answer) ==
    IF ~TruthyBool(s["quiz_ready"]) THEN Ret(s)
    ELSE Ret(Put(Append1(s, "user", <<answer>>), "quiz_answer", Some(<<answer>>)))

\* how an f-string shows an optional text
Shown(o) == IF o = None THEN <<"None">> ELSE o[1]

grade_quiz_answer(s, response) ==
    IF ~TruthyBool(s["quiz_ready"]) THEN Ret(s)
    ELSE IF ~({"current_quiz_question", "quiz_answer", "summary"} \subseteq DOMAIN s)
    THEN Raise(s)                                  \* KeyError
    ELSE IF response = Failure THEN Raise(s)
    ELSE LET question == s["current_quiz_question"]
             s1 == Put(s, "quiz_grade", Some(response))
             s2 == IF Unset(s1, "quiz_grades") THEN Put(s1, "quiz_grades", Some(<<>>))
                   ELSE s1
         IN Ret(Put(s2, "quiz_grades",
                    Some(Append(s2["quiz_grades"][1],
                                [question |-> question, grade |-> response]))))

RECURSIVE ResultLines(_, _)
\* the loop of present_feedback over quiz_grades[i..]
ResultLines(quiz_grades, i) ==
    IF i > Len(quiz_grades) THEN <<>>
    ELSE <<"Question ", Str(i), ": ">> \o Shown(quiz_grades[i].question)
             \o quiz_grades[i].grade \o ResultLines(quiz_grades, i + 1)

\* a present_feedback that, when the user declines, moves the index one past
\* the question count
present_feedbackOvershoot(s, responses) ==
    IF ~TruthyBool(s["quiz_ready"]) THEN Ret(s)
    ELSE LET current_index == GetD(s, "current_question_index", 0)[1]
             num_questions == GetD(s, "num_questions", 1)[1]
             summary == <<"Quiz Results:">>
                 \o ResultLines(GetD(s, "quiz_grades", <<>>)[1], 1)
                 \o <<"You've completed all ", Str(num_questions), " questions!">>
         IN IF current_index >= num_questions - 1
            THEN Ret(Append1(s, "assistant", summary))
            ELSE LET s1 == Put(s, "current_question_index", Some(current_index + 1))
                     s2 == Append1(s1, "assistant", NEXT_Q_PROMPT)
                     s3 == Append1(s2, "user", <<Head(responses)>>)
                 IN IF Lower(Head(responses)) \notin AFFIRMATIVE
                    THEN Ret(Append1(Put(s3, "current_question_index",
                                         Some(num_questions + 1)),
                                     "assistant", summary))
                    ELSE Ret(s3)

\* a present_feedback that, when the user declines, ends the quiz without
\* the results message
present_feedbackSilentDecline(s, responses) ==
    IF ~TruthyBool(s["quiz_ready"]) THEN Ret(s)
    ELSE LET current_index == GetD(s, "current_question_index", 0)[1]
             num_questions == GetD(s, "num_questions", 1)[1]
             summary == <<"Quiz Results:">>
                 \o ResultLines(GetD(s, "quiz_grades", <<>>)[1], 1)
                 \o <<"You've completed all ", Str(num_questions), " questions!">>
         IN IF current_index >= num_questions - 1
            THEN Ret(Append1(s, "assistant", summary))
            ELSE LET s1 == Put(s, "current_question_index", Some(current_index + 1))
                     s2 == Append1(s1, "assistant", NEXT_Q_PROMPT)
                     s3 == Append1(s2, "user", <<Head(responses)>>)
                 IN IF Lower(Head(responses)) \notin AFFIRMATIVE
                    THEN Ret(Put(s3, "current_question_index", Some(num_questions)))
                    ELSE Ret(s3)

RECURSIVE present_feedback(_, _)
\* responses: the inputs the handler can read, in order
present_feedback(s, responses) ==
    IF ~TruthyBool(s["quiz_ready"]) THEN Ret(s)
    ELSE LET current_index == GetD(s, "current_question_index", 0)[1]
             num_questions == GetD(s, "num_questions", 1)[1]
         IN IF current_index >= num_questions - 1
            THEN LET quiz_grades == GetD(s, "quiz_grades", <<>>)[1]
                     summary == <<"Quiz Results:">> \o ResultLines(quiz_grades, 1)
                         \o <<"You've completed all ", Str(num_questions), " questions!">>
                 IN Ret(Append1(s, "assistant", summary))
            ELSE LET s1 == Put(s, "current_question_index", Some(current_index + 1))
                     s2 == Append1(s1, "assistant", NEXT_Q_PROMPT)
                     response == Head(responses)
                     s3 == Append1(s2, "user", <<response>>)
                 IN IF Lower(response) \notin AFFIRMATIVE
                    THEN present_feedback(
                             Put(s3, "current_question_index", Some(num_questions)),
                             Tail(responses))
                    ELSE Ret(s3)

\* a numbered list that stops after its first line
TopicLinesFirstOnly(topics, i) ==
    IF i > Len(topics) THEN <<>> ELSE <<Str(i), ". ">> \o topics[i]

RECURSIVE feedback_callsSameIndex(_, _, _)
\* the self-calls of a present_feedback that, when the user declines, calls
\* itself without having moved the index
feedback_callsSameIndex(s, responses, depth) ==
    IF ~TruthyBool(s["quiz_ready"]) THEN 0
    ELSE LET current_index == GetD(s, "current_question_index", 0)[1]
             num_questions == GetD(s, "num_questions", 1)[1]
         IN IF current_index >= num_questions - 1 THEN 0
            ELSE IF Lower(Head(responses)) \in AFFIRMATIVE THEN 0
            ELSE IF depth = 0 THEN 1
            ELSE 1 + feedback_callsSameIndex(s, Tail(responses), depth - 1)

RECURSIVE feedback_calls(_, _, _)
\* how many times present_feedback(s, responses) calls itself, one inside the
\* other; calls deeper than depth are not followed
feedback_calls(s, responses, depth) ==
    IF ~TruthyBool(s["quiz_ready"]) THEN 0
    ELSE LET current_index == GetD(s, "current_question_index", 0)[1]
             num_questions == GetD(s, "num_questions", 1)[1]
         IN IF current_index >= num_questions - 1 THEN 0
            ELSE IF Lower(Head(responses)) \in AFFIRMATIVE THEN 0
            ELSE IF depth = 0 THEN 1
            ELSE 1 + feedback_calls(
                         Put(Put(s, "current_question_index", Some(current_index + 1)),
                             "current_question_index", Some(num_questions)),
                         Tail(responses), depth - 1)

RECURSIVE TopicLines(_, _)
\* the numbered list suggest_related_topics renders from topics[i..]
TopicLines(topics, i) ==
    IF i > Len(topics) THEN <<>>
    ELSE <<Str(i), ". ">> \o topics[i] \o TopicLines(topics, i + 1)

SuggestionText(topics) ==
    <<"You might also be interested in these related topics:">> \o TopicLines(topics, 1)

suggest_related_topics(s, response) ==
    IF ~({"health_topic", "summary"} \subseteq DOMAIN s) THEN Raise(s)   \* KeyError
    ELSE IF response = Failure THEN Raise(s)
    ELSE LET topics == ParseArray(response,
                                  [i \in 1..3 |-> <<PLACEHOLDER_TOPICS[i]>>])
             s1 == Put(s, "related_topics", Some(topics))
         IN Ret(Append1(s1, "assistant", SuggestionText(topics)))

\* the prompt shown with the related topics
NextPrompt(related_topics) ==
    IF TruthySeq(related_topics) THEN NEXT_PROMPT_TOPICS ELSE NEXT_PROMPT_PLAIN

\* a selection test that does not accept the numbers up to 2
SelectsRelatedAbove2(related_topics, response) ==
    /\ TruthySeq(related_topics)
    /\ IsDigit(response)
    /\ 3 <= ParseInt(response)[1]
    /\ ParseInt(response)[1] <= Len(related_topics[1])

\* "related_topics and response.isdigit() and 1 <= int(response) <= len(related_topics)"
SelectsRelated(related_topics, response) ==
    /\ TruthySeq(related_topics)
    /\ IsDigit(response)
    /\ 1 <= ParseInt(response)[1]
    /\ ParseInt(response)[1] <= Len(related_topics[1])

ask_next_action(s, response) ==
    LET related_topics == GetD(s, "related_topics", <<>>)
        s1 == Append1(s, "assistant", NextPrompt(related_topics))
        s2 == Append1(s1, "user", <<response>>)
    IN IF Lower(response) \in EXIT_WORDS
       THEN Ret(Put(s2, "next_action", Some("exit")))
       ELSE IF Lower(response) \in NEW_WORDS
       THEN Ret(Put(s2, "next_action", Some("new_topic")))
       ELSE IF TruthySeq(related_topics) /\ IsDigit(response) /\ ParseInt(response) = None
       THEN Raise(s2)                                 \* int(response): ValueError
       ELSE IF SelectsRelated(related_topics, response)
       THEN LET selected_topic == related_topics[1][ParseInt(response)[1]]
            IN Ret(Put(Put(s2, "health_topic", Some(selected_topic)),
                       "next_action", Some("new_topic")))
       ELSE Ret(Put(s2, "next_action", Some("new_topic")))

\* a router that lets the quiz run one question past the count
routerOneMore(s) ==
    IF Get(s, "next_action") = Some("exit") THEN "end_conversation"
    ELSE IF Get(s, "next_action") = Some("new_topic") THEN "ask_health_topic"
    ELSE IF Get(s, "quiz_ready") = Some(FALSE) THEN "suggest_related_topics"
    ELSE IF /\ TruthyBool(Get(s, "quiz_ready"))
            /\ GetD(s, "current_question_index", 0)[1] <= GetD(s, "num_questions", 1)[1]
    THEN "present_quiz_question"
    ELSE "suggest_related_topics"

router(s) ==
    IF Get(s, "next_action") = Some("exit") THEN "end_conversation"
    ELSE IF Get(s, "next_action") = Some("new_topic") THEN "ask_health_topic"
    ELSE IF Get(s, "quiz_ready") = Some(FALSE) THEN "suggest_related_topics"
    ELSE IF /\ TruthyBool(Get(s, "quiz_ready"))
            /\ GetD(s, "current_question_index", 0)[1] < GetD(s, "num_questions", 1)[1]
    THEN "present_quiz_question"
    ELSE "suggest_related_topics"

end_conversation(s) == Ret(Append1(s, "assistant", FAREWELL))

----------------------------------------------------------------------------
(* Inputs of the model *)

\* what the user types at the prompts of the graph workflow
TopicInputs == {"diabetes", "asthma"}
DetailInputs == {"easy", "medium"}
YesNoInputs == {"yes", "no"}
CountInputs == {"1", "2", "abc"}
AnswerInputs == {"a1", "2"}
\* prompt_for_quiz on its own: the replies and the question counts the user types
ReadyTexts == {"yes", "Okay", "no", "y", "sure", "ok", "maybe", " yes "}
CountTexts == {"0", "1", "2", "3", "4", "5", "7", "-2", "3.5", "abc", ""}
NextInputs == {"EXIT", "new", "2", "7"}

\* what the chat UI sends: the message and the three settings of the turn. The
\* messages are one of each class the stage that handles the turn tells apart;
\* the reset words are sent in every stage
ResetMessages == {"new", "Restart"}
TopicMessages == {"diabetes", "2"}
ReadyMessages == {"yes", "Okay", "no"}
AnswerMessages == {"1", "a1"}
NextMessages == {"exit", "EXIT", "2", "7", "hello"}
DefaultMessages == {"yes", "hello"}
Difficulties == {"medium", "hard"}
Details == {"easy", "medium"}
Counts == 1..MaxCount
\* healthbot_chat called by any caller: question counts the slider cannot send too
AnyCounts == {0, 6}
ChatModes == {"chat", "chat_any", "chat_ok", "sessions"}
\* the failures of the completion port a chat turn can meet
PortFailures == IF mode = "chat_ok" THEN {} ELSE {Failure}
\* the replies of the search port a chat turn can meet
ChatSearchReplies(query) ==
    IF mode = "chat_ok" THEN {reply \in SearchReplies(query) : ~reply.raised}
    ELSE SearchReplies(query)
SentCounts ==
    IF mode = "chat_any" THEN AnyCounts ELSE IF mode = "sessions" THEN {1} ELSE Counts
\* the difficulty and the level of detail a call passes; the two UI sessions
\* keep the defaults of the UI (medium, medium, one question)
SentDifficulties == IF mode = "sessions" THEN {"medium"} ELSE Difficulties
SentDetails == IF mode = "sessions" THEN {"medium"} ELSE Details

----------------------------------------------------------------------------
(* History of the end-to-end scenario: the inputs read so far are a prefix *)
(* of the script ("*" stands for any input), with the scenario's settings   *)
(* and no call that raised                                                  *)

ChatScript == <<"diabetes", "yes", "1", "*", "2">>
GraphScript == <<"diabetes", "medium", "yes", "1", "*", "2">>

ScenRead(script, sc, x) ==
    IF sc >= 0 /\ sc < Len(script) /\ script[sc + 1] \in {"*", x} THEN sc + 1 ELSE 0 - 1

RECURSIVE ScenReadAll(_, _, _)
ScenReadAll(script, sc, xs) ==
    IF xs = <<>> THEN sc ELSE ScenReadAll(script, ScenRead(script, sc, Head(xs)), Tail(xs))

----------------------------------------------------------------------------
(* The graph workflow: wrk_flow's edges, run from run_healthbot's state.   *)
(* The dict a node returns is the state the next node gets, and the node   *)
(* after router is the one router's return value names.                    *)

\* healthbot_chat has no attribute "state" yet
NoState == [k \in {} |-> None]

\* the UI sessions (browser tabs) whose events call healthbot_chat
Sessions == {"A", "B"}
\* no session has called yet
NoSession == [who |-> "", turns |-> 0, left |-> [x \in Sessions |-> NoState]]

\* the state run_healthbot hands to graph.invoke
RunState ==
    [messages |-> Some(<<>>), health_topic |-> None, quiz_ready |-> None,
     quiz_answer |-> None, next_action |-> None, difficulty |-> None,
     level_of_details |-> None, num_questions |-> None,
     current_question_index |-> Some(0), search_results |-> None, summary |-> None,
     quiz_questions |-> None, current_quiz_question |-> None, quiz_grade |-> None,
     quiz_feedback |-> None, related_topics |-> None]

\* how many inputs the user has typed: each one is a user entry of the transcript
UserInputs(s) ==
    Cardinality({i \in 1..Len(s["messages"][1]) : s["messages"][1][i].role = "user"})

\* the session is still followed when n more inputs are read
MayRead(n) == UserInputs(state) + n <= MaxInputs

\* one node of the graph ran: r is what it returned, next the edge out of it
NodeStep(node, r, inputs, next) ==
    /\ state' = r.st
    /\ pc' = IF r.err THEN "error" ELSE next
    /\ ran' = <<node>>
    /\ inp' = inputs
    /\ visited' = IF node = "ask_health_topic" THEN {node} ELSE visited \cup {node}
    /\ scen' = IF r.err THEN 0 - 1 ELSE ScenReadAll(GraphScript, scen, inputs)
    /\ UNCHANGED <<mode, out, session>>

AskHealthTopic ==
    /\ mode = "graph" /\ pc = "ask_health_topic"
    /\ MayRead(2)
    /\ \E health_topic \in TopicInputs, difficulty \in DetailInputs :
          NodeStep("ask_health_topic", ask_health_topic(state, health_topic, difficulty),
                   <<health_topic, difficulty>>, "search_health_info")

SearchHealthInfo ==
    /\ mode \in {"graph", "search"} /\ pc = "search_health_info"
    /\ \E reply \in (IF mode = "graph" THEN SearchReplies(SearchQuery(state))
                     ELSE RankedReplies(SearchQuery(state))) :
          NodeStep("search_health_info", search_health_info(state, reply),
                   <<>>, "summarize_health_info")

SummarizeHealthInfo ==
    /\ mode = "graph" /\ pc = "summarize_health_info"
    /\ \E response \in SummaryTexts \cup {Failure} :
          NodeStep("summarize_health_info", summarize_health_info(state, response),
                   <<>>, "present_summary")

PresentSummary ==
    /\ mode = "graph" /\ pc = "present_summary"
    /\ NodeStep("present_summary", present_summary(state), <<>>, "prompt_for_quiz")

PromptForQuiz ==
    /\ mode \in {"graph", "prompt"} /\ pc = "prompt_for_quiz"
    /\ \E response \in (IF mode = "graph" THEN YesNoInputs ELSE ReadyTexts) :
          IF Lower(response) \in AFFIRMATIVE
          THEN \E num_questions \in (IF mode = "graph" THEN CountInputs ELSE CountTexts) :
                  /\ MayRead(2)
                  /\
                     NodeStep("prompt_for_quiz",
                              prompt_for_quiz(state, response, num_questions),
                              <<response, num_questions>>, "create_quiz_questions")
          ELSE /\ MayRead(1)
               /\ NodeStep("prompt_for_quiz", prompt_for_quiz(state, response, ""),
                           <<response>>, "create_quiz_questions")

CreateQuizQuestions ==
    /\ mode = "graph" /\ pc = "create_quiz_questions"
    /\ IF TruthyBool(state["quiz_ready"])
       THEN \E response \in QuizTexts \cup {Failure} :
               NodeStep("create_quiz_questions", create_quiz_questions(state, response),
                        <<>>, "present_quiz_question")
       ELSE NodeStep("create_quiz_questions", create_quiz_questions(state, Failure),
                     <<>>, "present_quiz_question")

PresentQuizQuestion ==
    /\ mode = "graph" /\ pc = "present_quiz_question"
    /\ NodeStep("present_quiz_question", present_quiz_question(state),
                <<>>, "collect_quiz_answer")

CollectQuizAnswer ==
    /\ mode = "graph" /\ pc = "collect_quiz_answer"
    /\ IF TruthyBool(state["quiz_ready"])
       THEN \E answer \in AnswerInputs :
               MayRead(1) /\ NodeStep("collect_quiz_answer", collect_quiz_answer(state, answer),
                        <<answer>>, "grade_quiz_answer")
       ELSE NodeStep("collect_quiz_answer", collect_quiz_answer(state, ""),
                     <<>>, "grade_quiz_answer")

GradeQuizAnswer ==
    /\ mode = "graph" /\ pc = "grade_quiz_answer"
    /\ IF TruthyBool(state["quiz_ready"])
       THEN \E response \in GradeTexts \cup {Failure} :
               NodeStep("grade_quiz_answer", grade_quiz_answer(state, response),
                        <<>>, "present_feedback")
       ELSE NodeStep("grade_quiz_answer", grade_quiz_answer(state, Failure),
                     <<>>, "present_feedback")

\* whether present_feedback reads the user's reply to NEXT_Q_PROMPT
FeedbackAsks(s) ==
    /\ TruthyBool(s["quiz_ready"])
    /\ GetD(s, "current_question_index", 0)[1] < GetD(s, "num_questions", 1)[1] - 1

PresentFeedback ==
    /\ mode = "graph" /\ pc = "present_feedback"
    /\ IF FeedbackAsks(state)
       THEN \E response \in YesNoInputs :
               MayRead(1) /\ NodeStep("present_feedback", present_feedback(state, <<response>>),
                        <<response>>, "router")
       ELSE NodeStep("present_feedback", present_feedback(state, <<>>), <<>>, "router")

\* the router node and its conditional edges: the next node is router(state)
Router ==
    /\ mode \in {"graph", "router"} /\ pc = "router"
    /\ NodeStep("router", Ret(state), <<>>, router(state))

SuggestRelatedTopics ==
    /\ mode = "graph" /\ pc = "suggest_related_topics"
    /\ \E response \in TopicTexts \cup {Failure} :
          NodeStep("suggest_related_topics", suggest_related_topics(state, response),
                   <<>>, "ask_next_action")

AskNextAction ==
    /\ mode = "graph" /\ pc = "ask_next_action"
    /\ \E response \in NextInputs :
          MayRead(1) /\ NodeStep("ask_next_action", ask_next_action(state, response),
                   <<response>>, "router")

EndConversation ==
    /\ mode = "graph" /\ pc = "end_conversation"
    /\ NodeStep("end_conversation", end_conversation(state), <<>>, "END")

InitGraph ==
    /\ mode = "graph" /\ pc = "ask_health_topic" /\ state = RunState
    /\ ran = <<>> /\ inp = <<>> /\ out = <<>> /\ visited = {} /\ scen = 0
    /\ session = NoSession

NextGraph ==
    \/ AskHealthTopic \/ SearchHealthInfo \/ SummarizeHealthInfo \/ PresentSummary
    \/ PromptForQuiz \/ CreateQuizQuestions \/ PresentQuizQuestion
    \/ CollectQuizAnswer \/ GradeQuizAnswer \/ PresentFeedback \/ Router
    \/ SuggestRelatedTopics \/ AskNextAction \/ EndConversation

SpecGraph == InitGraph /\ [][NextGraph]_vars

----------------------------------------------------------------------------
(* The chat driver healthbot_chat: one action per stage of its if-chain;   *)
(* an action is the whole call for one message                             *)

\* HealthBotState(messages=[], health_topic=topic, ..., related_topics=None)
NewState(difficulty, level_of_detail, num_questions, topic) ==
    [messages |-> Some(<<>>), health_topic |-> topic, quiz_ready |-> None,
     quiz_answer |-> None, next_action |-> None, difficulty |-> Some(difficulty),
     level_of_details |-> Some(level_of_detail), num_questions |-> Some(num_questions),
     current_question_index |-> Some(0), search_results |-> None, summary |-> None,
     quiz_questions |-> None, current_quiz_question |-> None, quiz_grade |-> None,
     quiz_feedback |-> None, quiz_grades |-> Some(<<>>), related_topics |-> None]

\* "if not hasattr(healthbot_chat, 'state')"
EnsureState(s, difficulty, level_of_detail, num_questions) ==
    IF DOMAIN s = {} THEN NewState(difficulty, level_of_detail, num_questions, None)
    ELSE s

\* an if-chain that looks for the reset words after the topic intake
StageIntakeFirst(s, message) ==
    IF Get(s, "health_topic") = None THEN "intake"
    ELSE IF Lower(message) \in RESTART_WORDS THEN "reset"
    ELSE IF Get(s, "quiz_ready") = None THEN "readiness"
    ELSE IF TruthyBool(Get(s, "quiz_ready")) /\ Get(s, "quiz_answer") = None THEN "answer"
    ELSE IF Get(s, "related_topics") # None /\ Get(s, "next_action") = None
    THEN "next_action"
    ELSE "default"

\* an if-chain whose next-action block does not look at next_action
StageAfterExit(s, message) ==
    IF Lower(message) \in RESTART_WORDS THEN "reset"
    ELSE IF Get(s, "health_topic") = None THEN "intake"
    ELSE IF Get(s, "quiz_ready") = None THEN "readiness"
    ELSE IF TruthyBool(Get(s, "quiz_ready")) /\ Get(s, "quiz_answer") = None THEN "answer"
    ELSE IF Get(s, "related_topics") # None THEN "next_action"
    ELSE "default"

\* an if-chain whose next-action block wants a non-empty list of related topics
StageWantsTopics(s, message) ==
    IF Lower(message) \in RESTART_WORDS THEN "reset"
    ELSE IF Get(s, "health_topic") = None THEN "intake"
    ELSE IF Get(s, "quiz_ready") = None THEN "readiness"
    ELSE IF TruthyBool(Get(s, "quiz_ready")) /\ Get(s, "quiz_answer") = None THEN "answer"
    ELSE IF TruthySeq(Get(s, "related_topics")) /\ Get(s, "next_action") = None
    THEN "next_action"
    ELSE "default"

\* which block of the if-chain handles the message
Stage(s, message) ==
    IF Lower(message) \in RESTART_WORDS THEN "reset"
    ELSE IF Get(s, "health_topic") = None THEN "intake"
    ELSE IF Get(s, "quiz_ready") = None THEN "readiness"
    ELSE IF TruthyBool(Get(s, "quiz_ready")) /\ Get(s, "quiz_answer") = None THEN "answer"
    ELSE IF Get(s, "related_topics") # None /\ Get(s, "next_action") = None
    THEN "next_action"
    ELSE "default"

\* what the UI shows when the call raised
EXCEPTION == <<"<exception>">>

\* the tail of the results turn: related topics and the next-action prompt
SuggestionAndPrompt(s) ==
    LET related_topics == GetD(s, "related_topics", <<>>)
    IN SuggestionText(IF related_topics = None THEN <<>> ELSE related_topics[1])
           \o NextPrompt(related_topics)

RECURSIVE ChatResultLines(_, _, _)
\* the loop of the results turn over zip(quiz_questions, quiz_grades)[i..]
ChatResultLines(quiz_questions, quiz_grades, i) ==
    IF i > Len(quiz_questions) \/ i > Len(quiz_grades) THEN <<>>
    ELSE <<"Question ", Str(i), ": ">> \o quiz_questions[i] \o quiz_grades[i].grade
             \o ChatResultLines(quiz_questions, quiz_grades, i + 1)

\* a reset that keeps the transcript and logs the topic prompt in it
chat_resetLogging(s, difficulty, level_of_detail, num_questions) ==
    [st |-> Put(NewState(difficulty, level_of_detail, num_questions, None), "messages",
                Some(Append(GetD(s, "messages", <<>>)[1],
                            [role |-> "assistant", content |-> TOPIC_PROMPT]))),
     err |-> FALSE, ran |-> <<"reset">>, out |-> TOPIC_PROMPT]

\* "if message.lower() in [restart, new, new topic]"
chat_reset(s, difficulty, level_of_detail, num_questions) ==
    [st |-> NewState(difficulty, level_of_detail, num_questions, None), err |-> FALSE,
     ran |-> <<"reset">>, out |-> TOPIC_PROMPT]

\* "if state.get('health_topic') is None"
chat_intake(s, message, difficulty, level_of_detail, num_questions, reply, response) ==
    LET s1 == Put(s, "health_topic", Some(<<message>>))
        s2 == Put(s1, "difficulty", Some(difficulty))
        s3 == Put(s2, "level_of_details", Some(level_of_detail))
        s4 == Put(s3, "num_questions", Some(num_questions))
        r1 == search_health_info(s4, reply)
        r2 == summarize_health_info(r1.st, response)
    IN IF r1.err
       THEN [st |-> r1.st, err |-> TRUE, ran |-> <<"intake", "search_health_info">>,
             out |-> EXCEPTION]
       ELSE IF r2.err
       THEN [st |-> r2.st, err |-> TRUE,
             ran |-> <<"intake", "search_health_info", "summarize_health_info">>,
             out |-> EXCEPTION]
       ELSE [st |-> r2.st, err |-> FALSE,
             ran |-> <<"intake", "search_health_info", "summarize_health_info">>,
             out |-> r2.st["summary"][1] \o QUIZ_PROMPT]

\* "if state.get('quiz_ready') is None"
chat_readiness(s, message, response) ==
    LET s1 == Put(s, "quiz_ready", Some(Lower(message) \in AFFIRMATIVE))
    IN IF TruthyBool(s1["quiz_ready"])
       THEN LET r == create_quiz_questions(s1, response)
            IN [st |-> r.st, err |-> r.err,
                ran |-> <<"readiness", "create_quiz_questions">>,
                out |-> IF r.err THEN EXCEPTION
                        ELSE <<"Question 1: ">> \o r.st["current_quiz_question"][1]]
       ELSE LET r == suggest_related_topics(s1, response)
            IN [st |-> r.st, err |-> r.err,
                ran |-> <<"readiness", "suggest_related_topics">>,
                out |-> IF r.err THEN EXCEPTION ELSE SuggestionAndPrompt(r.st)]

\* an answer turn that goes on to the results one question early
LastAnswerEarly(s) ==
    ~(GetD(s, "current_question_index", 0)[1] < GetD(s, "num_questions", 1)[1] - 2)

\* whether the answer turn goes on to the results (the else branch)
LastAnswer(s) ==
    ~(GetD(s, "current_question_index", 0)[1] < GetD(s, "num_questions", 1)[1] - 1)

\* "if state.get('quiz_ready') and state.get('quiz_answer') is None"
chat_answer(s, message, grade, response) ==
    LET s1 == Put(s, "quiz_answer", Some(<<message>>))
        r1 == grade_quiz_answer(s1, grade)
        current_index == GetD(r1.st, "current_question_index", 0)[1]
        num_questions == GetD(r1.st, "num_questions", 1)[1]
    IN IF r1.err
       THEN [st |-> r1.st, err |-> TRUE, ran |-> <<"answer", "grade_quiz_answer">>,
             out |-> EXCEPTION]
       ELSE IF ~LastAnswer(r1.st)
       THEN LET s2 == Put(r1.st, "current_question_index", Some(current_index + 1))
                s3 == Put(s2, "quiz_answer", None)
                quiz_questions == s3["quiz_questions"]
            IN IF quiz_questions = None \/ current_index + 1 >= Len(quiz_questions[1])
               THEN [st |-> s3, err |-> TRUE,        \* TypeError / IndexError
                     ran |-> <<"answer", "grade_quiz_answer">>, out |-> EXCEPTION]
               ELSE [st |-> s3, err |-> FALSE,
                     ran |-> <<"answer", "grade_quiz_answer">>,
                     out |-> <<"Question ", Str(current_index + 2), ": ">>
                                 \o quiz_questions[1][current_index + 2]]
       ELSE LET quiz_grades == GetD(r1.st, "quiz_grades", <<>>)
                quiz_questions == GetD(r1.st, "quiz_questions", <<>>)
                r2 == suggest_related_topics(r1.st, response)
            IN IF quiz_questions = None \/ quiz_grades = None
               THEN [st |-> r1.st, err |-> TRUE,     \* zip(None, ...): TypeError
                     ran |-> <<"answer", "grade_quiz_answer">>, out |-> EXCEPTION]
               ELSE [st |-> r2.st, err |-> r2.err,
                     ran |-> <<"answer", "grade_quiz_answer", "suggest_related_topics">>,
                     out |-> IF r2.err THEN EXCEPTION
                             ELSE <<"Quiz Results:">>
                                 \o ChatResultLines(quiz_questions[1], quiz_grades[1], 1)
                                 \o <<"You've completed all ", Str(num_questions),
                                      " questions!">>
                                 \o SuggestionAndPrompt(r2.st)]

\* "if state.get('related_topics') is not None and state.get('next_action') is None"
chat_next_action(s, message, difficulty, level_of_detail, num_questions, reply, response) ==
    LET related_topics == GetD(s, "related_topics", <<>>)
    IN IF Lower(message) \in EXIT_WORDS
       THEN [st |-> Put(s, "next_action", Some("exit")), err |-> FALSE,
             ran |-> <<"next_action", "exit">>, out |-> FAREWELL]
       ELSE IF Lower(message) \in NEW_WORDS
       THEN [st |-> NewState(difficulty, level_of_detail, num_questions, None),
             err |-> FALSE, ran |-> <<"next_action", "new_topic">>, out |-> TOPIC_PROMPT]
       ELSE IF TruthySeq(related_topics) /\ IsDigit(message) /\ ParseInt(message) = None
       THEN [st |-> s, err |-> TRUE,                  \* int(message): ValueError
             ran |-> <<"next_action", "related_topic">>, out |-> EXCEPTION]
       ELSE IF SelectsRelated(related_topics, message)
       THEN LET selected_topic == related_topics[1][ParseInt(message)[1]]
                s1 == NewState(difficulty, level_of_detail, num_questions,
                               Some(selected_topic))
                r1 == search_health_info(s1, reply)
                r2 == summarize_health_info(r1.st, response)
            IN IF r1.err
               THEN [st |-> r1.st, err |-> TRUE,
                     ran |-> <<"next_action", "related_topic", "search_health_info">>,
                     out |-> EXCEPTION]
               ELSE [st |-> r2.st, err |-> r2.err,
                     ran |-> <<"next_action", "related_topic", "search_health_info",
                               "summarize_health_info">>,
                     out |-> IF r2.err THEN EXCEPTION
                             ELSE <<"Here's information about ">> \o selected_topic
                                      \o r2.st["summary"][1] \o QUIZ_PROMPT]
       ELSE [st |-> NewState(difficulty, level_of_detail, num_questions, None),
             err |-> FALSE, ran |-> <<"next_action", "default_new_topic">>,
             out |-> TOPIC_PROMPT]

\* a default reply that puts the question count back to one
chat_defaultResetsCount(s) ==
    [st |-> Put(s, "num_questions", Some(1)), err |-> FALSE, ran |-> <<"default">>,
     out |-> DEFAULT_REPLY]

\* the last line of healthbot_chat
chat_default(s) ==
    [st |-> s, err |-> FALSE, ran |-> <<"default">>, out |-> DEFAULT_REPLY]

\* whether the turn replaced the state by a fresh one (a new topic-cycle)
StartsCycle(r) ==
    r.ran[1] \in {"reset", "intake"}
        \/ (r.ran[1] = "next_action" /\ r.ran[2] # "exit")

\* one call of healthbot_chat returned (or raised): r is what the stage did,
\* settings the difficulty, level of detail and question count it read (<<>>
\* when the stage reads none of them); inp records the message and those settings
ChatStep(r, message, settings) ==
    /\ state' = r.st
    /\ ran' = r.ran
    /\ out' = r.out
    /\ inp' = <<message>> \o settings
    /\ visited' = IF StartsCycle(r) THEN {r.ran[i] : i \in 1..Len(r.ran)}
                  ELSE visited \cup {r.ran[i] : i \in 1..Len(r.ran)}
    /\ scen' = IF r.err \/ settings \notin {<<>>, <<"medium", "medium", 1>>}
               THEN 0 - 1 ELSE ScenRead(ChatScript, scen, message)
    /\ IF mode = "sessions"
       THEN /\ session.turns < MaxTurns
            /\ \E who \in Sessions :
                  session' = [who |-> who, turns |-> session.turns + 1,
                              left |-> [session.left EXCEPT ![who] = r.st]]
       ELSE session' = session
    /\ UNCHANGED <<mode, pc>>

ChatReset ==
    /\ mode \in ChatModes
    /\ \E message \in ResetMessages, d \in SentDifficulties, l \in SentDetails, n \in SentCounts :
          /\ Stage(EnsureState(state, d, l, n), message) = "reset"
          /\ ChatStep(chat_reset(EnsureState(state, d, l, n), d, l, n), message,
                      <<d, l, n>>)

ChatIntake ==
    /\ mode \in ChatModes
    /\ \E message \in TopicMessages \cup ResetMessages, d \in SentDifficulties, l \in SentDetails, n \in SentCounts :
          LET s == EnsureState(state, d, l, n)
          IN /\ Stage(s, message) = "intake"
             /\ \E response \in SummaryTexts \cup PortFailures,
                   reply \in ChatSearchReplies(
                       SearchQuery(Put(Put(s, "health_topic", Some(<<message>>)),
                                       "level_of_details", Some(l)))) :
                   ChatStep(chat_intake(s, message, d, l, n, reply, response),
                            message, <<d, l, n>>)

\* the stages below read none of the settings of the call, and the state exists:
\* the first call is handled by the reset or the intake stage
ChatReadiness ==
    /\ mode \in ChatModes /\ state # NoState
    /\ \E message \in ReadyMessages \cup ResetMessages :
          /\ Stage(state, message) = "readiness"
          /\ \E response \in (IF Lower(message) \in AFFIRMATIVE THEN QuizTexts
                              ELSE TopicTexts) \cup PortFailures :
                ChatStep(chat_readiness(state, message, response), message, <<>>)

ChatAnswer ==
    /\ mode \in ChatModes /\ state # NoState
    /\ \E message \in AnswerMessages \cup ResetMessages :
          /\ Stage(state, message) = "answer"
          /\ \E grade \in GradeTexts \cup PortFailures :
                IF LastAnswer(state)
                THEN \E response \in TopicTexts \cup PortFailures :
                        ChatStep(chat_answer(state, message, grade, response),
                                 message, <<>>)
                ELSE ChatStep(chat_answer(state, message, grade, Failure),
                              message, <<>>)

\* the exit branch reads no setting; the other branches build the new state of them
ChatNextAction ==
    /\ mode \in ChatModes /\ state # NoState
    /\ \E message \in NextMessages \cup ResetMessages :
          /\ Stage(state, message) = "next_action"
          /\ IF Lower(message) \in EXIT_WORDS
             THEN ChatStep(chat_next_action(state, message, "", "", 0,
                                            [raised |-> TRUE, results |-> <<>>], Failure),
                           message, <<>>)
             ELSE \E d \in SentDifficulties, l \in SentDetails, n \in SentCounts :
                IF SelectsRelated(GetD(state, "related_topics", <<>>), message)
                THEN \E response \in SummaryTexts \cup PortFailures,
                        reply \in ChatSearchReplies(
                            SearchQuery(NewState(d, l, n,
                                Some(state["related_topics"][1][ParseInt(message)[1]])))) :
                        ChatStep(chat_next_action(state, message, d, l, n, reply, response),
                                 message, <<d, l, n>>)
                ELSE ChatStep(chat_next_action(state, message, d, l, n,
                                               [raised |-> TRUE, results |-> <<>>],
                                               Failure),
                              message, <<d, l, n>>)

ChatDefault ==
    /\ mode \in ChatModes /\ state # NoState
    /\ \E message \in DefaultMessages \cup ResetMessages :
          /\ Stage(state, message) = "default"
          /\ ChatStep(chat_default(state), message, <<>>)

InitChat ==
    /\ mode = "chat" /\ pc = "turn" /\ state = NoState
    /\ ran = <<>> /\ inp = <<>> /\ out = <<>> /\ visited = {} /\ scen = 0
    /\ session = NoSession

NextChat ==
    \/ ChatReset \/ ChatIntake \/ ChatReadiness \/ ChatAnswer \/ ChatNextAction
    \/ ChatDefault

SpecChat == InitChat /\ [][NextChat]_vars

InitChatAny ==
    /\ mode = "chat_any" /\ pc = "turn" /\ state = NoState
    /\ ran = <<>> /\ inp = <<>> /\ out = <<>> /\ visited = {} /\ scen = 0
    /\ session = NoSession

SpecChatAny == InitChatAny /\ [][NextChat]_vars

\* the chat driver in the runs in which no search and no completion call raises
InitChatOk ==
    /\ mode = "chat_ok" /\ pc = "turn" /\ state = NoState
    /\ ran = <<>> /\ inp = <<>> /\ out = <<>> /\ visited = {} /\ scen = 0
    /\ session = NoSession

SpecChatOk == InitChatOk /\ [][NextChat]_vars

\* two UI sessions of one server process: each call of healthbot_chat is made
\* by either session, and all of them use the one attribute healthbot_chat.state
InitSessions ==
    /\ mode = "sessions" /\ pc = "turn" /\ state = NoState
    /\ ran = <<>> /\ inp = <<>> /\ out = <<>> /\ visited = {} /\ scen = 0
    /\ session = NoSession

SpecSessions == InitSessions /\ [][NextChat]_vars

----------------------------------------------------------------------------
(* The UI handlers around healthbot_chat (enhanced_healthbot_chat and the  *)
(* button handlers): they show the yes/no buttons or the text box by what  *)
(* the last message contains                                               *)

\* the pieces of the model's texts in which, lower-cased, one of the phrases
\* "would you like to take a quiz", "ready for the next question", "yes/no"
\* occurs
PhrasePieces == {QUIZ_PROMPT[1], NEXT_Q_PROMPT[1], "Is it a yes/no matter?"}

\* "any(phrase in last_message for phrase in [...])"
is_yes_no_question(last_message) ==
    \E i \in 1..Len(last_message) : last_message[i] \in PhrasePieces

\* what the handler returns: buttons shown and text box hidden, or the reverse
InputMode(last_message) ==
    IF is_yes_no_question(last_message) THEN "yesNo" ELSE "freeText"

----------------------------------------------------------------------------
(* router on its own: every combination of the fields it reads, each either *)
(* missing from the state or present.  A question count of None is what     *)
(* run_healthbot starts with; it lasts until prompt_for_quiz has set        *)
(* quiz_ready, so it is not combined with quiz_ready = True                 *)

RouterFields == {"next_action", "quiz_ready", "current_question_index", "num_questions"}

RouterStates ==
    { [k \in keys |-> CASE k = "next_action" -> na
                        [] k = "quiz_ready" -> qr
                        [] k = "current_question_index" -> Some(idx)
                        [] OTHER -> num] :
        keys \in SUBSET RouterFields,
        na \in {None, Some("exit"), Some("new_topic")},
        qr \in {None, Some(TRUE), Some(FALSE)},
        idx \in 0..MaxIndex,
        num \in {None} \cup {Some(n) : n \in 1..MaxIndex} }

InitRouter ==
    /\ mode = "router" /\ pc = "router"
    /\ state \in {s \in RouterStates :
                    Get(s, "quiz_ready") = Some(TRUE) => GetD(s, "num_questions", 1) # None}
    /\ ran = <<>> /\ inp = <<>> /\ out = <<>> /\ visited = {} /\ scen = 0
    /\ session = NoSession

SpecRouter == InitRouter /\ [][Router]_vars

----------------------------------------------------------------------------
(* prompt_for_quiz on its own, run on the states the graph reaches it in   *)
(* during the first topic-cycle                                            *)

PromptStates ==
    UNION { { summarize_health_info(
                  search_health_info(s, [raised |-> FALSE, results |-> results]).st,
                  response).st :
                results \in SearchHits(SearchQuery(s)), response \in SummaryTexts } :
            s \in { ask_health_topic(RunState, health_topic, difficulty).st :
                        health_topic \in TopicInputs, difficulty \in DetailInputs } }

InitPrompt ==
    /\ mode = "prompt" /\ pc = "prompt_for_quiz" /\ state \in PromptStates
    /\ ran = <<>> /\ inp = <<>> /\ out = <<>> /\ visited = {} /\ scen = 0
    /\ session = NoSession

SpecPrompt == InitPrompt /\ [][PromptForQuiz]_vars

----------------------------------------------------------------------------
(* search_health_info on its own, run on the states ask_health_topic leaves *)
(* for the topics and the levels of detail a user can type                  *)

SearchTopics == TopicInputs \cup {"2"}
SearchLevels == {"easy", "medium", "hard", "expert", "Easy", ""}

SearchStates ==
    { ask_health_topic(RunState, health_topic, difficulty).st :
        health_topic \in SearchTopics, difficulty \in SearchLevels }

InitSearch ==
    /\ mode = "search" /\ pc = "search_health_info" /\ state \in SearchStates
    /\ ran = <<>> /\ inp = <<>> /\ out = <<>> /\ visited = {} /\ scen = 0
    /\ session = NoSession

SpecSearch == InitSearch /\ [][SearchHealthInfo]_vars

----------------------------------------------------------------------------
(* Both programs *)

Init == InitGraph \/ InitChat

Next == NextGraph \/ NextChat

Spec == Init /\ [][Next]_vars

----------------------------------------------------------------------------
(* Properties: shared vocabulary *)

RanSet(r) == {r[i] : i \in 1..Len(r)}

EndsWith(text, suffix) ==
    Len(text) >= Len(suffix)
        /\ SubSeq(text, Len(text) - Len(suffix) + 1, Len(text)) = suffix

\* the quiz records of the topic-cycle so far
Graded(s) == IF Unset(s, "quiz_grades") THEN 0 ELSE Len(s["quiz_grades"][1])

\* the last entry the user typed into the transcript
LastUserText(s) ==
    LET m == s["messages"][1] IN m[Len(m)].content[1]

QuizStages ==
    {"create_quiz_questions", "present_quiz_question", "collect_quiz_answer",
     "grade_quiz_answer"}

ExitInputs == {"exit", "Exit", "EXIT"}
ResetInputs == {"restart", "Restart", "new", "new topic", "New Topic"}

\* a numeric string n with 1 <= n <= len(related_topics)
PicksRelated(s, text) ==
    /\ Get(s, "related_topics") # None
    /\ text \in {"1", "2", "3", "4", "5"}
    /\ ParseInt(text)[1] <= Len(s["related_topics"][1])

Picked(s, text) == s["related_topics"][1][ParseInt(text)[1]]

----------------------------------------------------------------------------
(* C1 *)

\* the decision the transition rules give, in their priority order
RouterRule(s) ==
    LET next_action == Get(s, "next_action")
        quiz_ready == Get(s, "quiz_ready")
    IN CASE next_action = Some("exit") -> "end_conversation"
         [] next_action # Some("exit") /\ next_action = Some("new_topic") ->
                "ask_health_topic"
         [] next_action \notin {Some("exit"), Some("new_topic")}
                /\ quiz_ready = Some(FALSE) -> "suggest_related_topics"
         [] OTHER ->
                IF quiz_ready = Some(TRUE)
                       /\ (IF "current_question_index" \in DOMAIN s
                           THEN s["current_question_index"][1] ELSE 0)
                            < (IF "num_questions" \in DOMAIN s
                               THEN s["num_questions"][1] ELSE 1)
                THEN "present_quiz_question"
                ELSE "suggest_related_topics"

\* C1: whenever router runs, the next stage is the one the transition rules
\* give for the state's next_action, quiz_ready, current_question_index and
\* num_questions (so equal states get equal decisions), and the state is left
\* as it was.
C1_RouterContract ==
    [][pc = "router" => (pc' = RouterRule(state) /\ state' = state)]_vars

\* router has decided to go on with the quiz: question 2 of 3 is next
C1_Witness ==
    /\ mode = "router" /\ ran = <<"router">> /\ pc = "present_quiz_question"
    /\ Get(state, "quiz_ready") = Some(TRUE)
    /\ Get(state, "current_question_index") = Some(1)
    /\ Get(state, "num_questions") = Some(3)
    /\ Get(state, "next_action") = None

----------------------------------------------------------------------------
(* C2 *)

\* C2: in the graph workflow with quiz_ready true, once present_feedback has
\* run after the k-th grading (k = num_questions), exactly k answers have
\* been graded in the topic-cycle and router selects suggest_related_topics.
\* A declined "next question" prompt ends the quiz with fewer than k
\* gradings, so k or more gradings mean every prompt was answered yes.
C2_GraphQuizLoopRunsK ==
    (/\ mode = "graph" /\ pc = "router" /\ ran = <<"present_feedback">>
     /\ Get(state, "quiz_ready") = Some(TRUE)
     /\ Graded(state) >= GetD(state, "num_questions", 1)[1])
        => (/\ Graded(state) = GetD(state, "num_questions", 1)[1]
            /\ router(state) = "suggest_related_topics")

----------------------------------------------------------------------------
(* C3 *)

\* C3: in the chat driver, once the readiness reply was affirmative and
\* num_questions = k, never more than k answers are graded; related topics
\* are suggested and the next-action prompt is emitted only when k records
\* exist; the turn that grades the k-th answer suggests them and ends with
\* the prompt; a turn that grades an earlier answer does neither.
C3_ChatGradesExactlyK ==
    (mode = "chat" /\ Get(state, "quiz_ready") = Some(TRUE)) =>
        LET k == GetD(state, "num_questions", 1)[1]
            prompted == EndsWith(out, NEXT_PROMPT_TOPICS)
                            \/ EndsWith(out, NEXT_PROMPT_PLAIN)
        IN /\ Graded(state) <= k
           /\ (Get(state, "related_topics") # None
                   \/ "suggest_related_topics" \in RanSet(ran) \/ prompted)
                  => Graded(state) = k
           /\ (ran[1] = "answer" /\ out # EXCEPTION /\ Graded(state) = k)
                  => (/\ Get(state, "related_topics") # None
                      /\ "suggest_related_topics" \in RanSet(ran)
                      /\ prompted)
           /\ (ran[1] = "answer" /\ Graded(state) < k)
                  => (ran = <<"answer", "grade_quiz_answer">> /\ ~prompted)

\* the second of two answers has just been graded and the topics suggested
C3_Witness ==
    /\ mode = "chat" /\ Get(state, "quiz_ready") = Some(TRUE)
    /\ Get(state, "num_questions") = Some(2) /\ Graded(state) = 2
    /\ ran = <<"answer", "grade_quiz_answer", "suggest_related_topics">>
    /\ Get(state, "related_topics") # None
    /\ EndsWith(out, NEXT_PROMPT_TOPICS)

----------------------------------------------------------------------------
(* C4 *)

\* C4 as stated: with quiz_ready false, no quiz stage has been visited in the
\* topic-cycle.
C4_DeclinedNeverVisitsQuiz ==
    Get(state, "quiz_ready") = Some(FALSE) => visited \cap QuizStages = {}

\* C4, amended: with quiz_ready false, the graph still visits the quiz stages
\* and present_feedback, but each of them returns the state as it got it,
\* reads no input and makes no call that can fail, and router then selects
\* suggest_related_topics; the chat driver runs suggest_related_topics in the
\* readiness turn and no quiz stage in any later turn of the topic-cycle.
C4_DeclinedQuizStagesIdle ==
    [][/\ (/\ mode = "graph" /\ Get(state, "quiz_ready") = Some(FALSE)
           /\ pc \in QuizStages \cup {"present_feedback"})
              => (state' = state /\ inp' = <<>> /\ pc' # "error")
       /\ (/\ mode = "graph" /\ Get(state, "quiz_ready") = Some(FALSE)
           /\ pc = "router" /\ Unset(state, "next_action"))
              => pc' = "suggest_related_topics"
       /\ (/\ mode = "chat" /\ Get(state, "quiz_ready") = None
           /\ Get(state', "quiz_ready") = Some(FALSE))
              => ran' = <<"readiness", "suggest_related_topics">>
       /\ (/\ mode = "chat" /\ Get(state, "quiz_ready") = Some(FALSE)
           /\ Get(state', "quiz_ready") = Some(FALSE))
              => RanSet(ran') \cap (QuizStages \cup {"answer"}) = {}
      ]_vars

\* the graph has walked the idle quiz stages of a declined quiz and router has
\* selected suggest_related_topics
C4_Witness ==
    /\ mode = "graph" /\ Get(state, "quiz_ready") = Some(FALSE)
    /\ QuizStages \subseteq visited
    /\ ran = <<"router">> /\ pc = "suggest_related_topics"

----------------------------------------------------------------------------
(* C5 *)

\* C5: "exit" in any letter case at the next-action prompt sets next_action to
\* exit; in the graph router then selects end_conversation, which appends the
\* farewell and ends the run; in the chat driver the turn answers with the
\* farewell and runs nothing else.
C5_ExitEndsConversation ==
    /\ (mode = "graph" /\ ran = <<"ask_next_action">> /\ inp[1] \in ExitInputs)
          => (/\ Get(state, "next_action") = Some("exit")
              /\ pc = "router" /\ router(state) = "end_conversation")
    /\ (mode = "graph" /\ ran = <<"router">>
            /\ Get(state, "next_action") = Some("exit"))
          => pc = "end_conversation"
    /\ (mode = "graph" /\ ran = <<"end_conversation">>)
          => (/\ pc = "END"
              /\ Get(state, "next_action") = Some("exit")
              /\ LET m == state["messages"][1]
                 IN m[Len(m)] = [role |-> "assistant", content |-> FAREWELL])
    /\ (mode = "chat" /\ ran # <<>> /\ ran[1] = "next_action"
            /\ inp[1] \in ExitInputs)
          => (/\ Get(state, "next_action") = Some("exit")
              /\ ran = <<"next_action", "exit">> /\ out = FAREWELL)

\* the graph said farewell after a capitalised EXIT, with topics on offer
C5_Witness ==
    /\ mode = "graph" /\ ran = <<"end_conversation">> /\ pc = "END"
    /\ LastUserText(Put(state, "messages",
                        Some(SubSeq(state["messages"][1], 1,
                                    Len(state["messages"][1]) - 1)))) = "EXIT"
    /\ TruthySeq(Get(state, "related_topics"))

----------------------------------------------------------------------------
(* C6 *)

\* C6: in the graph workflow, when the user picked related topic n at the
\* next-action prompt, the ask_health_topic that restarts the topic-cycle
\* leaves health_topic at related_topics[n-1], the topic the following search
\* and summary then use.
C6_GraphRelatedTopicPreseeded ==
    [][(/\ mode = "graph" /\ pc = "ask_health_topic"
        /\ Get(state, "next_action") = Some("new_topic")
        /\ PicksRelated(state, LastUserText(state)))
           => Get(state', "health_topic") = Some(Picked(state, LastUserText(state)))
      ]_vars

----------------------------------------------------------------------------
(* C7 *)

\* C7: in the chat driver, a number n within 1..len(related_topics) at the
\* next-action prompt makes the same turn start a new topic-cycle with
\* health_topic = related_topics[n-1] and run the search for it; unless the
\* search or the summary call fails, the turn also summarizes and answers with
\* "Here's information about <topic>", the new summary and the quiz-readiness
\* prompt, leaving the session waiting for the readiness reply.
C7_ChatRelatedTopicRestarts ==
    [][(/\ mode = "chat" /\ Get(state, "health_topic") # None
        /\ Get(state, "quiz_ready") # None
        /\ ~(Get(state, "quiz_ready") = Some(TRUE) /\ Get(state, "quiz_answer") = None)
        /\ Unset(state, "next_action")
        /\ PicksRelated(state, inp'[1]))
           => LET topic == Picked(state, inp'[1])
              IN /\ Get(state', "health_topic") = Some(topic)
                 /\ SubSeq(ran', 1, 3)
                        = <<"next_action", "related_topic", "search_health_info">>
                 /\ Get(state', "quiz_ready") = None
                 /\ Graded(state') = 0
                 /\ out' # EXCEPTION
                        => (/\ ran' = <<"next_action", "related_topic",
                                        "search_health_info", "summarize_health_info">>
                            /\ Get(state', "summary") # None
                            /\ Get(state', "search_results") # None
                            /\ out' = <<"Here's information about ">> \o topic
                                          \o state'["summary"][1] \o QUIZ_PROMPT)
      ]_vars

\* the turn restarted on the second related topic and showed its summary
C7_Witness ==
    /\ mode = "chat" /\ inp # <<>> /\ inp[1] = "2"
    /\ ran = <<"next_action", "related_topic", "search_health_info",
               "summarize_health_info">>
    /\ Get(state, "health_topic") = Some(<<"t2">>)
    /\ out = <<"Here's information about ", "t2", "S1">> \o QUIZ_PROMPT

----------------------------------------------------------------------------
(* C8 *)

\* C8: with every setting medium and one question, once the whole script
\* 'diabetes', 'yes', '1', <any answer>, '2' has been read (the graph reads the
\* level of detail right after the topic), the last input was taken at the
\* next-action prompt as the choice of related topic number 2, one answer has
\* been graded before it, and the topic-cycle restarts on that topic.
C8_EndToEndScenario ==
    /\ (mode = "chat" /\ scen = Len(ChatScript))
          => ran = <<"next_action", "related_topic", "search_health_info",
                     "summarize_health_info">>
    /\ (mode = "graph" /\ scen = Len(GraphScript))
          => (/\ ran = <<"ask_next_action">>
              /\ Graded(state) = 1
              /\ PicksRelated(state, "2")
              /\ Get(state, "health_topic") = Some(Picked(state, "2")))

----------------------------------------------------------------------------
(* C9 *)

\* C9: in the chat driver, after a turn whose message is a reset word in any
\* letter case, the state is the initial state built from the settings sent
\* with that turn, the answer is the initial topic prompt, and only the reset
\* block ran.
C9_ResetCommand ==
    (mode = "chat" /\ inp # <<>> /\ inp[1] \in ResetInputs)
        => (/\ Len(inp) = 4
            /\ state = NewState(inp[2], inp[3], inp[4], None)
            /\ out = TOPIC_PROMPT
            /\ ran = <<"reset">>)

\* a capitalised reset word was sent with settings hard / easy / 2
C9_Witness ==
    /\ mode = "chat" /\ inp = <<"Restart", "hard", "easy", 2>>
    /\ ran = <<"reset">> /\ out = TOPIC_PROMPT
    /\ Get(state, "health_topic") = None

----------------------------------------------------------------------------
(* C10 *)

\* C10: in the chat driver, a turn at the next-action prompt that resets the
\* topic-cycle without starting the next stage (a reset word, or an input that
\* is neither exit nor a listed number) leaves summary, search results,
\* quiz_ready, questions, answer, records, related topics and next_action
\* unset or empty and the index 0, takes the settings from that turn, and
\* carries the transcript over.
C10_ResetKeepsTranscript ==
    [][(/\ mode = "chat" /\ Get(state, "related_topics") # None
        /\ Unset(state, "next_action")
        /\ ran' \in {<<"reset">>, <<"next_action", "new_topic">>,
                     <<"next_action", "default_new_topic">>})
           => (/\ \A k \in {"summary", "search_results", "quiz_ready", "quiz_questions",
                            "quiz_answer", "related_topics", "next_action",
                            "health_topic"} : Unset(state', k)
               /\ Graded(state') = 0
               /\ GetD(state', "current_question_index", 0) = Some(0)
               /\ <<state'["difficulty"][1], state'["level_of_details"][1],
                    state'["num_questions"][1]>> = SubSeq(inp', 2, 4)
               /\ state'["messages"] = state["messages"])
      ]_vars

----------------------------------------------------------------------------
(* C11 *)

\* the transcript of a state (no entry before the first call of the chat driver)
Transcript(s) == IF Unset(s, "messages") THEN <<>> ELSE s["messages"][1]

\* C11: every step leaves the transcript it found as a prefix of the
\* transcript it leaves: entries are only added, in both programs, whatever
\* the turn (new topic, related topic, reset command).
C11_TranscriptAppendOnly ==
    [][/\ Len(Transcript(state')) >= Len(Transcript(state))
       /\ SubSeq(Transcript(state'), 1, Len(Transcript(state))) = Transcript(state)
      ]_vars

----------------------------------------------------------------------------
(* C12 *)

\* C12: from every reachable state and for every choice of settings, the
\* reset applied to the state the reset gives returns that same state: the
\* chat driver's reset command, and the graph's reset of a topic-cycle (which
\* keeps only the transcript).  A state left by a reset turn is therefore
\* what a second reset with the same settings gives.
C12_ResetIdempotent ==
    /\ mode = "chat" =>
          /\ \A d \in Difficulties, l \in Details, n \in Counts :
                LET once == chat_reset(state, d, l, n).st
                IN chat_reset(once, d, l, n).st = once
          /\ (ran = <<"reset">>)
                => state = chat_reset(state, inp[2], inp[3], inp[4]).st
    /\ mode = "graph" =>
          LET once == OnlyMessages(GetD(state, "messages", <<>>))
          IN OnlyMessages(GetD(once, "messages", <<>>)) = once

\* a reset turn with settings medium / easy / 2 has left a state that a second
\* reset with those settings does not change
C12_Witness ==
    /\ mode = "chat" /\ ran = <<"reset">> /\ inp = <<"new", "medium", "easy", 2>>
    /\ state = chat_reset(state, "medium", "easy", 2).st
    /\ Get(state, "num_questions") = Some(2)

----------------------------------------------------------------------------
(* C13 *)

\* C13: after prompt_for_quiz has read an affirmative reply and a question
\* count, it has returned normally and num_questions is in 1..5: the count
\* read as an integer n gives min(5, max(1, n)), a text that is no integer
\* gives 1.
C13_QuizCountClamp ==
    (ran = <<"prompt_for_quiz">> /\ inp[1] \in {"yes", "YES", "Okay", "okay", "y", "sure", "ok"})
        => (/\ pc # "error"
            /\ Len(inp) = 2
            /\ Get(state, "num_questions") \in {Some(k) : k \in 1..5}
            /\ LET n == ParseInt(inp[2])
               IN Get(state, "num_questions")
                      = Some(IF n = None THEN 1
                             ELSE IF n[1] < 1 THEN 1
                             ELSE IF n[1] > 5 THEN 5
                             ELSE n[1]))

\* the count 7 was stored as 5
C13_Witness ==
    /\ mode = "prompt" /\ ran = <<"prompt_for_quiz">> /\ inp = <<"Okay", "7">>
    /\ Get(state, "num_questions") = Some(5)

----------------------------------------------------------------------------
(* C14 *)

\* C14: in every state of the chat driver, whatever question count the caller
\* sends with a turn, the num_questions the state holds is an integer in 1..5.
C14_ChatCountInRange ==
    (mode \in ChatModes /\ state # NoState)
        => Get(state, "num_questions") \in {Some(k) : k \in 1..5}

----------------------------------------------------------------------------
(* C15 *)

\* C15: in every state of the graph workflow and of the chat driver the
\* question index (0 when the state has none) is at least 0 and at most the
\* question count (1 when the state has none); while the count is still None
\* the index is 0.
C15_IndexWithinCount ==
    (mode \in {"graph", "chat"} /\ state # NoState) =>
        LET current_index == GetD(state, "current_question_index", 0)
            num_questions == GetD(state, "num_questions", 1)
        IN /\ current_index # None
           /\ current_index[1] >= 0
           /\ IF num_questions = None THEN current_index[1] = 0
              ELSE current_index[1] <= num_questions[1]

\* the user has declined the second of two questions: the index is the count
C15_Witness ==
    /\ mode = "graph" /\ ran = <<"present_feedback">> /\ inp = <<"no">>
    /\ Get(state, "num_questions") = Some(2)
    /\ Get(state, "current_question_index") = Some(2)

----------------------------------------------------------------------------
(* C16 *)

\* C16: with the quiz wanted, when an iteration of the quiz loop has ended
\* (the graph's present_feedback has returned; a chat turn has graded an
\* answer and answered), the number of quiz records equals the question
\* index.
C16_RecordsEqualIndex ==
    (/\ Get(state, "quiz_ready") = Some(TRUE)
     /\ \/ mode = "graph" /\ ran = <<"present_feedback">> /\ pc = "router"
        \/ mode = "chat" /\ ran[1] = "answer" /\ out # EXCEPTION)
        => Graded(state) = GetD(state, "current_question_index", 0)[1]

----------------------------------------------------------------------------
(* C17 *)

\* C17: whenever the state holds generated quiz questions, their number is
\* the question count.
C17_QuestionsMatchCount ==
    (mode \in {"graph", "chat"} /\ Get(state, "quiz_questions") # None)
        => Len(state["quiz_questions"][1]) = GetD(state, "num_questions", 1)[1]

----------------------------------------------------------------------------
(* C18 *)

\* C18: whenever the graph is about to run create_quiz_questions for a wanted
\* quiz, then for every text the completion service can return the handler
\* returns normally and leaves a non-empty sequence of questions.
C18_CreateNeverRaises ==
    (/\ mode = "graph" /\ pc = "create_quiz_questions"
     /\ Get(state, "quiz_ready") = Some(TRUE))
        => \A text \in QuizTexts :
              LET r == create_quiz_questions(state, text)
              IN ~r.err /\ TruthySeq(Get(r.st, "quiz_questions"))

----------------------------------------------------------------------------
(* C19 *)

\* completion texts in which no "[" is followed by a "]"
NoArrayTexts == {<<"q1?">>, <<"q1", "]">>, <<"[", "q1">>, <<"]", "q1", "[">>}

\* C19: whenever create_quiz_questions is about to run for a wanted quiz (the
\* graph node; the chat driver's affirmative readiness turn), a completion
\* text without a "[" ... "]" part makes it return normally with
\* quiz_questions the one-element sequence of that text and
\* current_quiz_question that text.
C19_NoArrayFallback ==
    \A text \in NoArrayTexts :
        /\ (/\ mode = "graph" /\ pc = "create_quiz_questions"
            /\ Get(state, "quiz_ready") = Some(TRUE))
              => LET r == create_quiz_questions(state, text)
                 IN /\ ~r.err
                    /\ Get(r.st, "quiz_questions") = Some(<<text>>)
                    /\ Get(r.st, "current_quiz_question") = Some(text)
        /\ (/\ mode = "chat" /\ state # NoState /\ Get(state, "health_topic") # None
            /\ Get(state, "quiz_ready") = None)
              => LET r == chat_readiness(state, "yes", text)
                 IN /\ ~r.err
                    /\ Get(r.st, "quiz_questions") = Some(<<text>>)
                    /\ Get(r.st, "current_quiz_question") = Some(text)
                    /\ r.out = <<"Question 1: ">> \o text

\* the graph has stored the raw text "q1?" as the only question
C19_Witness ==
    /\ mode = "graph" /\ ran = <<"create_quiz_questions">>
    /\ pc = "present_quiz_question"
    /\ Get(state, "quiz_questions") = Some(<< <<"q1?">> >>)
    /\ Get(state, "current_quiz_question") = Some(<<"q1?">>)

----------------------------------------------------------------------------
(* C20 *)

\* C20: no turn fails on an index into quiz_questions that is out of range:
\* where the graph is about to present a question the node returns normally,
\* and where the chat driver is waiting for an answer to a question of a
\* stored quiz, the answer turn returns normally whatever the grading and the
\* suggestion texts are.
C20_NoIndexFailure ==
    /\ (mode = "graph" /\ pc = "present_quiz_question")
          => ~present_quiz_question(state).err
    /\ (/\ mode = "chat" /\ state # NoState /\ Stage(state, "a1") = "answer"
        /\ Get(state, "quiz_questions") # None)
          => \A grade \in GradeTexts, response \in TopicTexts :
                ~chat_answer(state, "a1", grade, response).err

----------------------------------------------------------------------------
(* C21 *)

\* C21: a chat turn of the topic intake in which the completion call of
\* summarize_health_info failed leaves the state as it was before the turn
\* (the state the call started from, created on the first call), and the next
\* message is handled by the topic intake again.
C21_FailedSummaryKeepsState ==
    [][(/\ mode = "chat"
        /\ ran' = <<"intake", "search_health_info", "summarize_health_info">>
        /\ out' = EXCEPTION)
          => /\ state' = EnsureState(state, inp'[2], inp'[3], inp'[4])
             /\ \A message \in TopicMessages : Stage(state', message) = "intake"]_vars

----------------------------------------------------------------------------
(* C22 *)

\* C22: wherever the chat driver is waiting for an answer, an answer turn in
\* which the completion call of grade_quiz_answer fails leaves quiz_answer,
\* the quiz records and current_question_index as they were, and the next
\* message is again handled as the answer.
C22_FailedGradeKeepsState ==
    (mode = "chat" /\ state # NoState /\ Stage(state, "a1") = "answer")
        => LET r == chat_answer(state, "a1", Failure, Failure)
           IN /\ r.err
              /\ Get(r.st, "quiz_answer") = Get(state, "quiz_answer")
              /\ Get(r.st, "quiz_grades") = Get(state, "quiz_grades")
              /\ Get(r.st, "current_question_index")
                     = Get(state, "current_question_index")
              /\ Stage(r.st, "a1") = "answer"

----------------------------------------------------------------------------
(* C23 *)

\* the replies of the search port that are an error or an empty result
SoftReplies(query) ==
    {reply \in SearchReplies(query) : reply.raised \/ reply.results = <<>>}

\* C23: where search_health_info is about to run (the graph node; the topic
\* intake of the chat driver), a search that raises or returns nothing makes
\* it store the empty sequence as search_results and return normally, and
\* summarize_health_info then stores a summary: the turn is not aborted.
C23_SearchFailsSoftly ==
    /\ (mode = "graph" /\ pc = "search_health_info")
          => \A reply \in SoftReplies(SearchQuery(state)), response \in SummaryTexts :
                LET r1 == search_health_info(state, reply)
                    r2 == summarize_health_info(r1.st, response)
                IN /\ ~r1.err
                   /\ Get(r1.st, "search_results") = Some(<<>>)
                   /\ ~r2.err /\ Get(r2.st, "summary") = Some(response)
    /\ (mode = "chat" /\ state # NoState)
          => \A message \in TopicMessages :
                Stage(state, message) = "intake"
                  => \A response \in SummaryTexts,
                        reply \in SoftReplies(SearchQuery(
                                     Put(state, "health_topic", Some(<<message>>)))) :
                        LET r == chat_intake(state, message,
                                             state["difficulty"][1],
                                             state["level_of_details"][1],
                                             state["num_questions"][1], reply, response)
                        IN /\ ~r.err
                           /\ Get(r.st, "search_results") = Some(<<>>)
                           /\ Get(r.st, "summary") = Some(response)

----------------------------------------------------------------------------
(* C24 *)

\* C24: with two UI sessions calling healthbot_chat in any order, the state
\* a call of one session starts from is the state that session's own last
\* call left (no state on its first call): the calls of the other session
\* have not changed it.
C24_SessionsShareNothing ==
    [][mode = "sessions" => state = session.left[session'.who]]_vars

----------------------------------------------------------------------------
(* C25 *)

\* the conversation has ended: the graph is past end_conversation; the chat
\* driver has stored next_action = exit (in the turn that returned the farewell)
Ended ==
    \/ mode = "graph" /\ pc = "END"
    \/ mode = "chat" /\ Get(state, "next_action") = Some("exit")

\* C25 as stated: once the conversation has ended, no later input runs a
\* handler or changes a field of the state.
C25_EndIsTerminal ==
    [][Ended => (state' = state /\ ran' = <<"default">>)]_vars

\* C25 amended: once the conversation has ended the graph takes no further
\* step, and in the chat driver every later input that is not a reset word
\* gets the default reply, with no handler run and the state unchanged; a
\* reset word still replaces the state by a fresh one.
C25_EndIsTerminalButReset ==
    [][Ended =>
         /\ mode = "chat"
         /\ IF Lower(inp'[1]) \in RESTART_WORDS
            THEN ran' = <<"reset">>
                 /\ state' = NewState(inp'[2], inp'[3], inp'[4], None)
            ELSE ran' = <<"default">> /\ state' = state /\ out' = DEFAULT_REPLY]_vars

\* the chat driver answered a later input after the exit
C25_Witness ==
    /\ mode = "chat" /\ Get(state, "next_action") = Some("exit")
    /\ ran = <<"default">> /\ inp = <<"hello">>

----------------------------------------------------------------------------
(* C26 *)

\* a text without its surrounding whitespace
Trimmed(s) ==
    CASE s = " yes " -> "yes"
      [] OTHER -> s

\* C26: after prompt_for_quiz has read the readiness reply, quiz_ready is
\* true exactly when the reply, trimmed of surrounding whitespace and with
\* its case ignored, is one of yes, y, sure, ok, okay, and false otherwise.
C26_ReadinessVocabulary ==
    (mode = "prompt" /\ ran = <<"prompt_for_quiz">>)
        => Get(state, "quiz_ready") = Some(Lower(Trimmed(inp[1])) \in AFFIRMATIVE)

----------------------------------------------------------------------------
(* C27 *)

\* replies to the next-action prompt
NextTexts ==
    {"exit", "EXIT", "Exit", "quit", "bye", "goodbye", "new", "new topic", "New Topic",
     "0", "1", "2", "3", "7", "hello", "yes", "²"}

\* the claim's "numeric string in 1..len(related_topics)"
InRelatedRange(related_topics, text) ==
    /\ TruthySeq(related_topics)
    /\ ParseInt(text) # None
    /\ ParseInt(text)[1] \in 1..Len(related_topics[1])

\* C27: where the graph is about to run ask_next_action, every reply makes it
\* return normally with next_action set: exit for an exit word; new_topic
\* with the topic set to the selected related topic for a number within the
\* related topics; new_topic with the topic cleared for a new-topic word and
\* for every other reply.
C27_NextActionTotal ==
    (mode = "graph" /\ pc = "ask_next_action")
        => \A response \in NextTexts :
              LET r == ask_next_action(state, response)
                  related_topics == GetD(state, "related_topics", <<>>)
              IN /\ ~r.err
                 /\ IF Lower(response) \in EXIT_WORDS
                    THEN Get(r.st, "next_action") = Some("exit")
                    ELSE IF Lower(response) \notin NEW_WORDS
                            /\ InRelatedRange(related_topics, response)
                    THEN /\ Get(r.st, "next_action") = Some("new_topic")
                         /\ Get(r.st, "health_topic")
                                = Some(related_topics[1][ParseInt(response)[1]])
                    ELSE /\ Get(r.st, "next_action") = Some("new_topic")
                         /\ Get(r.st, "health_topic") = None

\* the part of C27 about errors alone: no reply makes ask_next_action raise
C27_NextActionNeverRaises ==
    (mode = "graph" /\ pc = "ask_next_action")
        => \A response \in NextTexts : ~ask_next_action(state, response).err

----------------------------------------------------------------------------
(* C28 *)

\* the quiz records of a state, none when the field is missing or None
Records(s) == IF Unset(s, "quiz_grades") THEN <<>> ELSE s["quiz_grades"][1]

\* C28: where grade_quiz_answer is about to run with quiz_ready true (the
\* graph node; the answer turn of the chat driver), a completion text makes
\* it return with the records extended by exactly the record of the current
\* question and that text, the earlier records unchanged, and with
\* quiz_answer cleared.
C28_GradeAppendsAndClears ==
    \A response \in GradeTexts :
        /\ (/\ mode = "graph" /\ pc = "grade_quiz_answer"
            /\ Get(state, "quiz_ready") = Some(TRUE))
              => LET r == grade_quiz_answer(state, response)
                 IN ~r.err =>
                       /\ Records(r.st)
                            = Append(Records(state),
                                     [question |-> state["current_quiz_question"],
                                      grade |-> response])
                       /\ Get(r.st, "quiz_answer") = None
        /\ (mode = "chat" /\ state # NoState /\ Stage(state, "a1") = "answer")
              => LET r == grade_quiz_answer(Put(state, "quiz_answer", Some(<<"a1">>)),
                                            response)
                 IN ~r.err =>
                       /\ Records(r.st)
                            = Append(Records(state),
                                     [question |-> state["current_quiz_question"],
                                      grade |-> response])
                       /\ Get(r.st, "quiz_answer") = None

\* the part of C28 about the records alone
C28_GradeAppendsOneRecord ==
    \A response \in GradeTexts :
        (/\ mode = "graph" /\ pc = "grade_quiz_answer"
         /\ Get(state, "quiz_ready") = Some(TRUE))
           => LET r == grade_quiz_answer(state, response)
              IN /\ ~r.err
                 /\ Records(r.st)
                      = Append(Records(state),
                               [question |-> state["current_quiz_question"],
                                grade |-> response])

----------------------------------------------------------------------------
(* C29 *)

\* completion texts without a "[" ... "]" part, or whose bracketed part is
\* no JSON array
NoTopicArrayTexts ==
    { <<"no list">>, <<"[", "t1">>, <<"]", "t1", "[">>,
      <<"[", "t1", "t2", "]">>, <<"Topics:", "[", "t1", ",", "]">> }
\* completion texts with a JSON array in them
TopicArrayTexts ==
    { <<"[", "t1", ",", "t2", ",", "t3", "]">>, <<"Sure:", "[", "t2", "]", "!">>,
      <<"[", "]">> }

\* content is the suggestion header followed by one numbered line per topic
NumberedList(content, topics) ==
    /\ Len(content) = 1 + 3 * Len(topics)
    /\ content[1] = "You might also be interested in these related topics:"
    /\ \A i \in 1..Len(topics) :
          /\ content[3 * i - 1] = Str(i)
          /\ content[3 * i] = ". "
          /\ <<content[3 * i + 1]>> = topics[i]

\* what C29 says of the state st a call returned for the completion text
SuggestionStored(before, r, text) ==
    LET topics == r.st["related_topics"][1]
        messages == r.st["messages"][1]
    IN /\ ~r.err
       /\ text \in NoTopicArrayTexts
             => topics = << <<"Related topic 1">>, <<"Related topic 2">>,
                            <<"Related topic 3">> >>
       /\ Len(messages) = Len(before["messages"][1]) + 1
       /\ messages[Len(messages)].role = "assistant"
       /\ NumberedList(messages[Len(messages)].content, topics)

\* C29: where suggest_related_topics is about to run (the graph node; the
\* chat driver's turn for a declined quiz), every completion text makes it
\* return normally; a text without a bracketed array, or with one that does
\* not parse, stores the three placeholder topics; and the entry appended to
\* the transcript lists the stored topics, one numbered line each, in order.
C29_SuggestionFallback ==
    \A text \in NoTopicArrayTexts \cup TopicArrayTexts :
        /\ (mode = "graph" /\ pc = "suggest_related_topics")
              => SuggestionStored(state, suggest_related_topics(state, text), text)
        /\ (/\ mode = "chat" /\ state # NoState /\ Stage(state, "no") = "readiness")
              => LET r == chat_readiness(state, "no", text)
                 IN /\ r.ran = <<"readiness", "suggest_related_topics">>
                    /\ SuggestionStored(state, r, text)

\* the graph has stored the placeholders for the text "no list"
C29_Witness ==
    /\ mode = "graph" /\ ran = <<"suggest_related_topics">> /\ pc = "ask_next_action"
    /\ Get(state, "related_topics")
          = Some(<< <<"Related topic 1">>, <<"Related topic 2">>, <<"Related topic 3">> >>)

----------------------------------------------------------------------------
(* C30 *)

\* the settings a state holds
Settings(s) ==
    <<Get(s, "difficulty"), Get(s, "level_of_details"), Get(s, "num_questions")>>

\* C30: in the chat driver, once a topic is stored, a turn that is neither a
\* reset nor the start of a new topic-cycle from the next-action prompt leaves
\* the stored difficulty, level of detail and question count as they were,
\* whatever settings the call was made with.
C30_SettingsFixedInCycle ==
    [][(/\ mode = "chat" /\ Get(state, "health_topic") # None
        /\ ran'[1] # "reset"
        /\ ~(ran'[1] = "next_action" /\ ran'[2] # "exit"))
          => Settings(state') = Settings(state)]_vars

\* an answer turn, then a turn with the default reply, have run in a
\* topic-cycle whose stored settings are not the ones the UI starts with
C30_Witness ==
    /\ mode = "chat" /\ ran = <<"default">>
    /\ "grade_quiz_answer" \in visited
    /\ Settings(state) = <<Some("hard"), Some("easy"), Some(2)>>

----------------------------------------------------------------------------
(* C31 *)

\* the query the claim names for a topic and a level of detail
ClaimedQuery(topic, level) ==
    IF level = Some("easy") THEN topic \o <<" simple explanation for patients">>
    ELSE IF level = Some("hard") THEN topic \o <<" detailed medical information">>
    ELSE topic \o <<" patient information">>

\* C31: when search_health_info has returned, every snippet it stored came
\* from a search for the query the claim names for the topic and the level
\* of detail of the state; the stored result is a result of the port for that
\* query, kept whole and in its order; and no other field has changed.
C31_SearchQueryAndFrame ==
    [][(/\ mode = "search" /\ ran' = <<"search_health_info">> /\ pc' # "error")
          => LET q == ClaimedQuery(state["health_topic"][1],
                                   Get(state, "level_of_details"))
             IN /\ state'["search_results"] # None
                /\ [raised |-> FALSE, results |-> state'["search_results"][1]]
                       \in RankedReplies(q)
                /\ DOMAIN state' = DOMAIN state \cup {"search_results"}
                /\ \A k \in DOMAIN state \ {"search_results"} : state'[k] = state[k]]_vars

\* a search for a hard level has stored two snippets with the lower rank first
C31_Witness ==
    /\ mode = "search" /\ ran = <<"search_health_info">>
    /\ Get(state, "level_of_details") = Some("hard")
    /\ state["search_results"]
          = Some(<<[query |-> <<"diabetes", " detailed medical information">>, rank |-> 2],
                   [query |-> <<"diabetes", " detailed medical information">>, rank |-> 1]>>)

----------------------------------------------------------------------------
(* C32 *)

\* completion texts for the quiz that are a single question without an array
QuestionTexts == {<<"q1?">>, <<"Is it a yes/no matter?">>}

\* C32: the input mode of a chat turn is yesNo exactly when the message the
\* turn returned is the take-a-quiz prompt (after the summary), and freeText
\* for every other message; in particular the first quiz question is shown
\* with freeText whatever question text the completion service produced.
C32_InputModeByPrompt ==
    /\ (mode = "chat" /\ out # <<>> /\ out # EXCEPTION)
          => (InputMode(out) = "yesNo" <=> EndsWith(out, QUIZ_PROMPT))
    /\ (mode = "chat" /\ state # NoState /\ Stage(state, "yes") = "readiness")
          => \A text \in QuestionTexts :
                LET r == chat_readiness(state, "yes", text)
                IN ~r.err => InputMode(r.out) = "freeText"

\* the part of C32 about the messages built without a completion text
\* containing one of the phrases
C32_InputModeOfModelTexts ==
    (mode = "chat" /\ out # <<>> /\ out # EXCEPTION)
        => (InputMode(out) = "yesNo" <=> EndsWith(out, QUIZ_PROMPT))

----------------------------------------------------------------------------
(* C33 *)

RECURSIVE RecordsText(_)
\* the records as a results message shows them: number, question and grade
\* of each, in order
RecordsText(records) ==
    IF records = <<>> THEN <<>>
    ELSE LET last == records[Len(records)]
         IN RecordsText(SubSeq(records, 1, Len(records) - 1))
                \o <<"Question ", Str(Len(records)), ": ">>
                \o Shown(last.question) \o last.grade

\* content is a quiz-results message that lists exactly the records
ListsRecords(content, records) ==
    /\ Len(content) >= 4
    /\ content[1] = "Quiz Results:"
    /\ SubSeq(content, 2, Len(content) - 3) = RecordsText(records)
    /\ content[Len(content) - 2] = "You've completed all "

\* the user has declined the next question in the topic-cycle the transcript
\* ends in: a reply outside the vocabulary follows the prompt, and no topic
\* prompt comes after it
DeclinedInCycle(s) ==
    LET messages == s["messages"][1]
    IN \E i \in 1..(Len(messages) - 1) :
          /\ messages[i].role = "assistant" /\ messages[i].content = NEXT_Q_PROMPT
          /\ messages[i + 1].role = "user"
          /\ Lower(messages[i + 1].content[1]) \notin AFFIRMATIVE
          /\ \A k \in (i + 1)..Len(messages) : messages[k].content # TOPIC_PROMPT

\* C33: in the graph, when present_feedback has read a reply outside the
\* affirmative vocabulary after j graded answers, j below the question
\* count, the index equals the question count, the transcript ends with the
\* prompt, the reply and one results message that lists exactly the j
\* records, and router selects suggest_related_topics; and from then on no
\* quiz node is about to run in that topic-cycle.
C33_DeclineEndsQuiz ==
    /\ (/\ mode = "graph" /\ ran = <<"present_feedback">> /\ inp # <<>>
        /\ Lower(inp[1]) \notin AFFIRMATIVE)
          => LET messages == state["messages"][1]
                 n == Len(messages)
                 records == Records(state)
             IN /\ pc = "router" /\ router(state) = "suggest_related_topics"
                /\ state["current_question_index"] = state["num_questions"]
                /\ Len(records) >= 1 /\ Len(records) < state["num_questions"][1]
                /\ n >= 3
                /\ messages[n - 2] = [role |-> "assistant", content |-> NEXT_Q_PROMPT]
                /\ messages[n - 1] = [role |-> "user", content |-> <<inp[1]>>]
                /\ messages[n].role = "assistant"
                /\ ListsRecords(messages[n].content, records)
    /\ (mode = "graph" /\ DeclinedInCycle(state))
          => pc \in {"router", "suggest_related_topics", "ask_next_action",
                     "ask_health_topic", "end_conversation", "END", "error"}

\* the user has declined the second of two questions and router has chosen
C33_Witness ==
    /\ mode = "graph" /\ pc = "suggest_related_topics" /\ DeclinedInCycle(state)
    /\ Get(state, "num_questions") = Some(2) /\ Len(Records(state)) = 1

----------------------------------------------------------------------------
(* C34 *)

\* the replies a user may give to every "Ready for the next question?" asked
\* during one call of present_feedback
ReplySequences ==
    {[i \in 1..(MaxDepth + 1) |-> r] : r \in YesNoInputs \cup {"Okay", "hello"}}

\* C34: where the graph is about to run present_feedback, the handler calls
\* itself at most once whatever the user replies, the self-call happens only
\* on a reply outside the affirmative vocabulary, and the state handed to the
\* self-call makes it take the aggregation branch (the index is not below the
\* question count minus one), so that the call returns.
C34_FeedbackRecursesOnce ==
    (mode = "graph" /\ pc = "present_feedback")
        => \A responses \in ReplySequences :
              LET calls == feedback_calls(state, responses, MaxDepth)
                  r == present_feedback(state, responses)
              IN /\ calls <= 1
                 /\ calls = 1 => /\ FeedbackAsks(state)
                                 /\ Lower(responses[1]) \notin AFFIRMATIVE
                                 /\ ~FeedbackAsks(r.st)
                                 /\ r.st["current_question_index"] = r.st["num_questions"]
                 /\ ~r.err

\* present_feedback has called itself for a declined question and returned
C34_Witness ==
    /\ mode = "graph" /\ pc = "router" /\ ran = <<"present_feedback">>
    /\ inp = <<"no">>
    /\ LET messages == state["messages"][1]
       IN messages[Len(messages)].content[1] = "Quiz Results:"

----------------------------------------------------------------------------
(* C35 *)

\* C35: in the chat driver, while no search and no completion call raises,
\* every message sent before the exit is handled by one of the stages reset,
\* topic intake, quiz readiness, quiz answer and next action; the catch-all
\* reply is returned only for a message sent when next_action = exit is
\* stored.
C35_DefaultOnlyAfterExit ==
    [][mode = "chat_ok"
          => /\ ran'[1] \in {"reset", "intake", "readiness", "answer", "next_action",
                             "default"}
             /\ (ran'[1] = "default" \/ out' = DEFAULT_REPLY)
                   => /\ Get(state, "next_action") = Some("exit")
                      /\ ran' = <<"default">> /\ out' = DEFAULT_REPLY]_vars

\* the catch-all reply has been returned after the exit
C35_Witness ==
    /\ mode = "chat_ok" /\ ran = <<"default">> /\ out = DEFAULT_REPLY
    /\ Get(state, "next_action") = Some("exit")

----------------------------------------------------------------------------
(* C36 *)

\* C36: in every state of the graph workflow in which quiz_ready is false,
\* each of create_quiz_questions, present_quiz_question, collect_quiz_answer,
\* grade_quiz_answer and present_feedback returns normally with the very
\* state it was given, whatever the completion service would have answered
\* (a failure included) and whatever the user would have typed.
C36_QuizStagesIdleWhenDeclined ==
    (mode = "graph" /\ Get(state, "quiz_ready") = Some(FALSE))
        => /\ \A response \in QuizTexts \cup {Failure} :
                 create_quiz_questions(state, response) = Ret(state)
           /\ present_quiz_question(state) = Ret(state)
           /\ \A answer \in AnswerInputs : collect_quiz_answer(state, answer) = Ret(state)
           /\ \A response \in GradeTexts \cup {Failure} :
                 grade_quiz_answer(state, response) = Ret(state)
           /\ \A response \in YesNoInputs :
                 present_feedback(state, <<response>>) = Ret(state)

\* the graph has run present_feedback for a declined quiz
C36_Witness ==
    /\ mode = "graph" /\ Get(state, "quiz_ready") = Some(FALSE)
    /\ ran = <<"present_feedback">> /\ pc = "router" /\ inp = <<>>

----------------------------------------------------------------------------
(* C37 *)

\* ask_health_topic has returned in this topic-cycle and ask_next_action has
\* not run in it yet
BeforeNextAction ==
    /\ mode = "graph"
    /\ "ask_health_topic" \in visited
    /\ "ask_next_action" \notin visited

\* C37: in the graph workflow next_action is unset from the return of
\* ask_health_topic until ask_next_action runs in that topic-cycle, and so
\* the router, evaluated after present_feedback, answers
\* present_quiz_question or suggest_related_topics and never
\* ask_health_topic or end_conversation.
C37_NextActionUnsetInCycle ==
    /\ BeforeNextAction => Get(state, "next_action") = None
    /\ (mode = "graph" /\ pc = "router" /\ ran = <<"present_feedback">>)
          => router(state) \in {"present_quiz_question", "suggest_related_topics"}

\* the router is about to be evaluated after present_feedback in a second
\* topic-cycle, which the user opened with "new"
C37_Witness ==
    /\ BeforeNextAction
    /\ pc = "router" /\ ran = <<"present_feedback">>
    /\ \E i \in 1..Len(state["messages"][1]) :
          state["messages"][1][i] = [role |-> "user", content |-> <<"new">>]

----------------------------------------------------------------------------
(* C38 *)

\* the positions of the transcript that hold a system message
SystemEntries(s) ==
    {i \in 1..Len(s["messages"][1]) : s["messages"][1][i].role = "system"}

\* how many times the transcript shows the topic question
TopicQuestions(s) ==
    Cardinality({i \in 1..Len(s["messages"][1]) :
                    s["messages"][1][i] = [role |-> "assistant", content |-> TOPIC_PROMPT]})

\* C38: in the graph workflow, once ask_health_topic has run, the transcript
\* holds exactly one system message and it is the first entry, in the first
\* topic-cycle and in every later one.
C38_OneSystemMessageFirst ==
    (mode = "graph" /\ ran # <<>>)
        => /\ SystemEntries(state) = {1}
           /\ state["messages"][1][1].content = SYSTEM_MSG

\* ask_health_topic has just returned for the second topic of the session
C38_Witness ==
    /\ mode = "graph" /\ ran = <<"ask_health_topic">>
    /\ TopicQuestions(state) = 2

====
